---- MODULE Spec2Model ----
(***************************************************************************)
(* Model of the CSV bulk-import page (src/src/app/dev/migrate/page.tsx):   *)
(* the batched execution engine processWithRateLimit, the import           *)
(* orchestrator handleImport and the review session (duplicate detection   *)
(* against the existing-product index).                                    *)
(***************************************************************************)
EXTENDS Integers, Sequences, FiniteSets, TLC

(***************************************************************************)
(* Bounds of the model.                                                    *)
(***************************************************************************)
MaxItems == 3
MaxParallel == 2
MaxRetries == 1
MaxProducts == 2
MaxFaults == 1
MaxRows == 3
MaxField == 3
MaxText == 3
MaxCategories == 3

VARIABLES
  \* ---- processWithRateLimit: arguments ----
  total,          \* items.length
  handlerKind,    \* which handler was passed: "abstract" | "importProduct"
  options,        \* RateLimitOptions: batchSize, batchDelayMs, parallel, perItemDelayMs, maxRetries
  \* ---- processWithRateLimit: locals ----
  enginePc,       \* "notCalled" | "loopHead" | "inBatch" | "batchSleep" | "returned"
  offset,         \* the batch loop's offset
  mode,           \* "seq" (workerCount <= 1) | "pool" of the running batch
  localIndex,     \* the sequential loop's localIndex
  cursor,         \* the worker pool's shared cursor
  activeWorkers,  \* workers of the running batch that have not left their loop
  phase,          \* per item: position of its executeItem call
  attempts,       \* per item: executeItem's local attempts
  failures,       \* the failures list
  completed,      \* the completed counter
  \* ---- observations of the run (history) ----
  progressLog,    \* the arguments of every onProgress call, in order
  progressCalls,  \* per item: onProgress calls made by its executeItem
  invoked,        \* per item: handler invocations
  claimed,        \* per item: times a loop or worker took the index
  indexArg,       \* per item: the index argument its executeItem call received
  lastResult,     \* per item: "none" | "ok" | "threw", how its last attempt ended
  lastError,      \* per item: the error its last attempt threw, if it threw
  firstError      \* per item: "none", or whether the retry predicate accepts the
                  \* error its first attempt threw: "retryable" | "fatal"

engineVars == <<total, handlerKind, options, enginePc, offset, mode, localIndex,
                cursor, activeWorkers, phase, attempts, failures, completed,
                progressLog, progressCalls, invoked, claimed, indexArg,
                lastResult, lastError, firstError>>

VARIABLES
  \* ---- state of ImportProductsPage ----
  parsedData,               \* the Parsed Products under review
  categories,               \* the shared category list
  categoryCreationChoices,  \* proposal key -> create it?
  importing,                \* the importing flag
  existingProducts,         \* the existing-product index: byCode and byName
  existingLoaded,           \* existingLoaded
  currentBusiness,          \* id of the current business
  loadInFlight,             \* a loadExistingProducts that is not cancelled is pending
  lastStep,                 \* history: what the page did last
  \* ---- handleImport: locals of the call being followed ----
  importPc,                 \* "idle" | "categoryCall" | "writing"
  importOutcome,            \* how the last call ended, "none" before and during a call
  categoriesSnapshot,       \* categoriesSnapshot
  categoriesToCreate,       \* categoriesToCreate
  catPos,                   \* position in categoriesToCreate of the pending createDocument
  createdCategoryIds,       \* createdCategoryIds: proposal key -> id
  createdCategories,        \* createdCategories
  productsToProcess,        \* productsToProcess
  productsReadyForImport,   \* productsReadyForImport, the items handed to the engine
  call,                     \* per item: the pending remote call of importProduct
  \* ---- the remote document store ----
  storeProducts,            \* product documents
  storeVariants,            \* variant documents
  remoteCategories,         \* category documents others wrote since the page loaded
  nextId,                   \* source of ID.unique()
  \* ---- observations (history) ----
  remoteLog,                \* the remote calls that succeeded, in order
  remoteCalls,              \* remote calls issued by the call being followed
  faults,                   \* remote calls that were made to fail
  \* ---- parseCSV: the text of the file and its tokens ----
  csvTable,                 \* the records the text was written from, if any
  csvText,                  \* the text of the file, a sequence of characters
  csvHeaders,               \* headers
  csvRows,                  \* the values of the data lines
  csvStatus,                \* "chosen" | "parsed" | "failed", "none" without a file
  \* ---- getCategoryPath / getCategoryAncestry: one call ----
  walkFn,                   \* which of the two functions is called, "none" without a call
  lookup,                   \* lookup: category id -> category
  walkCategoryId,           \* the argument categoryId
  currentId,                \* currentId
  visited,                  \* visited
  path,                     \* path
  walkPc                    \* "loop" | "returned", "none" without a call

pageVars == <<parsedData, categories, categoryCreationChoices, importing>>

importVars == <<importPc, importOutcome, categoriesSnapshot, categoriesToCreate,
                catPos, createdCategoryIds, createdCategories, productsToProcess,
                productsReadyForImport, call>>

storeVars == <<storeProducts, storeVariants, remoteCategories, nextId, remoteLog,
              remoteCalls, faults>>

reviewVars == <<existingProducts, existingLoaded, currentBusiness, loadInFlight,
                lastStep>>

csvVars == <<csvTable, csvText, csvHeaders, csvRows, csvStatus>>

walkVars == <<walkFn, lookup, walkCategoryId, currentId, visited, path, walkPc>>

vars == <<engineVars, pageVars, reviewVars, importVars, storeVars, csvVars, walkVars>>

(***************************************************************************)
(* The tokenizer of parseCSV.  A text is a sequence of characters, each a  *)
(* string of length one; a field, a line and a value are texts.            *)
(***************************************************************************)
Quote == "\""

Comma == ","

Newline == "\n"

Space == " "

Letter == "a"

\* what String.prototype.trim removes
Blank(char) == char \in {Space, Newline}

RECURSIVE TrimStart(_)
TrimStart(text) ==
  IF text # <<>> /\ Blank(Head(text)) THEN TrimStart(Tail(text)) ELSE text

RECURSIVE TrimEnd(_)
TrimEnd(text) ==
  IF text # <<>> /\ Blank(text[Len(text)])
  THEN TrimEnd(SubSeq(text, 1, Len(text) - 1)) ELSE text

\* String.prototype.trim
Trim(text) == TrimEnd(TrimStart(text))

\* lines.push(currentLine) under `if (currentLine.trim())` (lines 975-977, 984)
PushLine(lines, currentLine) ==
  IF Trim(currentLine) # <<>> THEN Append(lines, currentLine) ELSE lines

RECURSIVE SplitLines(_, _, _, _)
\* The loop of lines 964-984 over the rest of the text.
SplitLines(text, currentLine, insideQuotes, lines) ==
  IF text = <<>> THEN PushLine(lines, currentLine)
  ELSE LET char == Head(text)
           inside == IF char = Quote THEN ~insideQuotes ELSE insideQuotes IN
       IF char = Newline /\ ~inside
       THEN SplitLines(Tail(text), <<>>, inside, PushLine(lines, currentLine))
       ELSE SplitLines(Tail(text), Append(currentLine, char), inside, lines)

RECURSIVE ParseLineFrom(_, _, _, _)
\* The loop of parseCSVLine (lines 1090-1102) over the rest of the line.
ParseLineFrom(line, current, insideQuotes, result) ==
  IF line = <<>> THEN Append(result, Trim(current))
  ELSE LET char == Head(line) IN
       IF char = Quote
       THEN ParseLineFrom(Tail(line), current, ~insideQuotes, result)
       ELSE IF char = Comma /\ ~insideQuotes
       THEN ParseLineFrom(Tail(line), <<>>, insideQuotes, Append(result, Trim(current)))
       ELSE ParseLineFrom(Tail(line), Append(current, char), insideQuotes, result)

\* parseCSVLine (lines 1085-1105)
ParseCSVLine(line) == ParseLineFrom(line, <<>>, FALSE, <<>>)

\* null, undefined and a missing id
Null == 0

\* Neither getCategoryPath nor getCategoryAncestry has been called.
WalkIdle ==
  /\ walkFn = "none" /\ lookup = <<>> /\ walkCategoryId = Null
  /\ currentId = Null /\ visited = {} /\ path = <<>>
  /\ walkPc = "none"

\* No file has been chosen.
CsvIdle ==
  /\ csvTable = <<>> /\ csvText = <<>>
  /\ csvHeaders = <<>> /\ csvRows = <<>>
  /\ csvStatus = "none"

(***************************************************************************)
(* Errors a handler can throw, as extractErrorDetails sees them: a numeric *)
(* status code (0 when the error carries none) and a lower-cased message.  *)
(***************************************************************************)
RetryableCodes == {408, 425, 429, 500, 502, 503, 504}

RetryableTexts == {"429", "too many requests", "rate limit", "timeout",
                   "network error", "failed to fetch"}

ErrRateLimited == [code |-> 429, message |-> "server error"]
ErrInvalid     == [code |-> 400, message |-> "invalid document structure"]
ErrNetwork     == [code |-> 0,   message |-> "failed to fetch"]

\* what the abstract handler throws: a client error with a status code, or
\* a fetch failure that carries a message only
HandlerErrors == {ErrInvalid, ErrNetwork}

\* defaultShouldRetry: a retryable status code, or a message holding one of
\* the rate-limit / timeout / network patterns.
DefaultShouldRetry(error) ==
  \/ (error.code # 0 /\ error.code \in RetryableCodes)
  \/ error.message \in RetryableTexts

Items == 0 .. (total - 1)

Min(a, b) == IF a < b THEN a ELSE b
Max(a, b) == IF a > b THEN a ELSE b

\* items.slice(offset, offset + batchSize).length
BatchLen(off) == Max(0, Min(total, off + options.batchSize) - Min(total, off))

\* Mutant: the worker count is not capped by the parallel option.
WorkerCountUnclamped(len) == len

\* Math.min(Math.max(1, parallel), batchItems.length)
WorkerCount(len) == Min(Max(1, options.parallel), len)

\* batchItems[localIndex] / batchItems[current]: the item's position in items
ItemAt(off, local) == off + local

\* Mutant: the batch-local index is handed to executeItem.
GlobalIndexLocal(off, local) == local

\* offset + localIndex / offset + current: the index handed to executeItem
GlobalIndex(off, local) == off + local

\* Mutant: one retry too many.
CanRetryOffByOne(att, error) ==
  att <= options.maxRetries + 1 /\ DefaultShouldRetry(error)

\* attempts <= maxRetries && shouldRetry(error, item)
CanRetry(att, error) == att <= options.maxRetries /\ DefaultShouldRetry(error)

\* the entry pushed on the failures list
FailureEntry(index, att, error) ==
  [index |-> index, attempts |-> att, error |-> error,
   code |-> error.code, message |-> error.message]

\* Mutant: onProgress is called before completed is incremented.
ProgressArgsStale(done) == <<done - 1, total>>

\* onProgress?.(completed, total), called after completed += 1
ProgressArgs(done) == <<done, total>>

\* Mutant: the batch is over as soon as one worker leaves (Promise.race).
AnyWorkerDone(left) == TRUE

\* await Promise.all(workers): the batch is over when no worker is left
AllWorkersDone(left) == left = 0

NoError == [code |-> 0, message |-> ""]

Assigned(f, S, v) == [j \in DOMAIN f |-> IF j \in S THEN v ELSE f[j]]
Incremented(f, S) == [j \in DOMAIN f |-> IF j \in S THEN f[j] + 1 ELSE f[j]]

(***************************************************************************)
(* processWithRateLimit                                                    *)
(***************************************************************************)

\* State of a call that has not happened.
EngineIdle ==
  /\ total = 0
  /\ handlerKind = "abstract"
  /\ options = [batchSize |-> 1, batchDelayMs |-> 0, parallel |-> 1,
                perItemDelayMs |-> 0, maxRetries |-> 0]
  /\ enginePc = "notCalled"
  /\ offset = 0 /\ mode = "seq" /\ localIndex = 0 /\ cursor = 0
  /\ activeWorkers = 0
  /\ phase = <<>> /\ attempts = <<>>
  /\ failures = <<>> /\ completed = 0
  /\ progressLog = <<>> /\ progressCalls = <<>>
  /\ invoked = <<>> /\ claimed = <<>> /\ indexArg = <<>>
  /\ lastResult = <<>> /\ lastError = <<>> /\ firstError = <<>>

\* The call: the locals of lines 494-500.
EngineCall(n, kind, opts) ==
  /\ total' = n
  /\ handlerKind' = kind
  /\ options' = opts
  /\ enginePc' = IF n = 0 THEN "returned" ELSE "loopHead"
  /\ offset' = 0 /\ mode' = "seq" /\ localIndex' = 0 /\ cursor' = 0
  /\ activeWorkers' = 0
  /\ phase' = [i \in 0 .. (n - 1) |-> "unclaimed"]
  /\ attempts' = [i \in 0 .. (n - 1) |-> 0]
  /\ failures' = <<>> /\ completed' = 0
  /\ progressLog' = <<>>
  /\ progressCalls' = [i \in 0 .. (n - 1) |-> 0]
  /\ invoked' = [i \in 0 .. (n - 1) |-> 0]
  /\ claimed' = [i \in 0 .. (n - 1) |-> 0]
  /\ indexArg' = [i \in 0 .. (n - 1) |-> -1]
  /\ lastResult' = [i \in 0 .. (n - 1) |-> "none"]
  /\ lastError' = [i \in 0 .. (n - 1) |-> NoError]
  /\ firstError' = [i \in 0 .. (n - 1) |-> "none"]

\* executeItem(batchItems[local], offset + local) up to its first await:
\* attempts = 1 and the handler is called.  ph is the phase map so far.
StartItems(ph, off, locals) ==
  LET S == {ItemAt(off, l) : l \in locals} IN
  /\ phase' = Assigned(ph, S, "handler")
  /\ attempts' = Assigned(attempts, S, 1)
  /\ invoked' = Incremented(invoked, S)
  /\ claimed' = Incremented(claimed, S)
  /\ indexArg' = [j \in DOMAIN indexArg |->
                    IF \E l \in locals : ItemAt(off, l) = j
                    THEN GlobalIndex(off, CHOOSE l \in locals : ItemAt(off, l) = j)
                    ELSE indexArg[j]]

\* Lines 563-566 and the loop increment: the pause between batches.
BatchEnd(off) ==
  LET processedSoFar == off + BatchLen(off) IN
  IF processedSoFar < total /\ options.batchDelayMs > 0
  THEN enginePc' = "batchSleep" /\ offset' = off
  ELSE enginePc' = "loopHead" /\ offset' = off + options.batchSize

\* The head of the batch loop (lines 537-561): slice the batch, then either
\* run it sequentially or start workerCount workers, each claiming an index.
LoopHead ==
  /\ enginePc = "loopHead"
  /\ UNCHANGED <<total, handlerKind, options, failures, completed, progressLog,
                 progressCalls, lastResult, lastError, firstError>>
  /\ IF offset >= total
     THEN /\ enginePc' = "returned"
          /\ UNCHANGED <<offset, mode, localIndex, cursor, activeWorkers, phase,
                         attempts, invoked, claimed, indexArg>>
     ELSE LET len == BatchLen(offset)
              workerCount == WorkerCount(len) IN
          IF workerCount <= 1
          THEN /\ mode' = "seq" /\ localIndex' = 0
               /\ UNCHANGED <<cursor, activeWorkers>>
               /\ IF 0 < len
                  THEN /\ StartItems(phase, offset, {0})
                       /\ enginePc' = "inBatch" /\ UNCHANGED offset
                  ELSE /\ BatchEnd(offset)
                       /\ UNCHANGED <<phase, attempts, invoked, claimed, indexArg>>
          ELSE /\ mode' = "pool" /\ cursor' = workerCount
               /\ activeWorkers' = workerCount
               /\ StartItems(phase, offset, 0 .. (workerCount - 1))
               /\ enginePc' = "inBatch"
               /\ UNCHANGED <<offset, localIndex>>

\* What follows the return of executeItem: the sequential loop's next
\* iteration (lines 543-545) or the worker's next pull (lines 550-557).
Continue(ph) ==
  /\ UNCHANGED mode
  /\ IF mode = "seq"
     THEN /\ UNCHANGED <<cursor, activeWorkers>>
          /\ IF localIndex + 1 < BatchLen(offset)
             THEN /\ localIndex' = localIndex + 1
                  /\ StartItems(ph, offset, {localIndex + 1})
                  /\ UNCHANGED <<enginePc, offset>>
             ELSE /\ phase' = ph
                  /\ BatchEnd(offset)
                  /\ UNCHANGED <<localIndex, attempts, invoked, claimed, indexArg>>
     ELSE /\ UNCHANGED localIndex
          /\ LET current == cursor IN
             IF current >= BatchLen(offset)
             THEN /\ phase' = ph
                  /\ activeWorkers' = activeWorkers - 1
                  /\ IF AllWorkersDone(activeWorkers - 1)
                     THEN BatchEnd(offset)
                     ELSE UNCHANGED <<enginePc, offset>>
                  /\ UNCHANGED <<cursor, attempts, invoked, claimed, indexArg>>
             ELSE /\ cursor' = cursor + 1
                  /\ StartItems(ph, offset, {current})
                  /\ UNCHANGED <<activeWorkers, enginePc, offset>>

\* executeItem stays suspended (a backoff or a per-item delay).
Suspend(ph) ==
  /\ phase' = ph
  /\ UNCHANGED <<mode, localIndex, cursor, activeWorkers, enginePc, offset,
                 attempts, invoked, claimed, indexArg>>

\* executeItem after `await handler(item, index)` settled (lines 506-534).
AfterHandler(i, ok, error) ==
  LET terminal == ok \/ ~CanRetry(attempts[i], error) IN
  /\ lastResult' = [lastResult EXCEPT ![i] = IF ok THEN "ok" ELSE "threw"]
  /\ lastError' = [lastError EXCEPT ![i] = IF ok THEN NoError ELSE error]
  /\ firstError' = [firstError EXCEPT ![i] =
                      IF ~ok /\ attempts[i] = 1
                      THEN (IF DefaultShouldRetry(error) THEN "retryable" ELSE "fatal")
                      ELSE @]
  /\ UNCHANGED <<total, handlerKind, options>>
  /\ IF terminal
     THEN /\ failures' = IF ok THEN failures
                         ELSE Append(failures, FailureEntry(indexArg[i], attempts[i], error))
          /\ completed' = completed + 1
          /\ progressLog' = Append(progressLog, ProgressArgs(completed + 1))
          /\ progressCalls' = [progressCalls EXCEPT ![i] = @ + 1]
          /\ IF options.perItemDelayMs > 0
             THEN Suspend([phase EXCEPT ![i] = "delay"])
             ELSE Continue([phase EXCEPT ![i] = "finished"])
     ELSE /\ UNCHANGED <<failures, completed, progressLog, progressCalls>>
          /\ Suspend([phase EXCEPT ![i] = "backoff"])

\* The abstract handler resolves.
HandlerResolves(i) ==
  /\ enginePc = "inBatch" /\ handlerKind = "abstract"
  /\ phase[i] = "handler"
  /\ AfterHandler(i, TRUE, NoError)

\* The abstract handler rejects with some error.
HandlerRejects(i, error) ==
  /\ enginePc = "inBatch" /\ handlerKind = "abstract"
  /\ phase[i] = "handler"
  /\ AfterHandler(i, FALSE, error)

\* `await sleep(backoffDelay)` ends (line 525): the loop tries again.
BackoffWake(i) ==
  /\ enginePc = "inBatch"
  /\ phase[i] = "backoff"
  /\ phase' = [phase EXCEPT ![i] = "handler"]
  /\ attempts' = [attempts EXCEPT ![i] = @ + 1]
  /\ invoked' = [invoked EXCEPT ![i] = @ + 1]
  /\ UNCHANGED <<total, handlerKind, options, enginePc, offset, mode, localIndex,
                 cursor, activeWorkers, failures, completed, progressLog,
                 progressCalls, claimed, indexArg, lastResult, lastError,
                 firstError>>

\* `await sleep(perItemDelayMs)` ends (line 533): executeItem returns.
ItemDelayWake(i) ==
  /\ enginePc = "inBatch"
  /\ phase[i] = "delay"
  /\ Continue([phase EXCEPT ![i] = "finished"])
  /\ UNCHANGED <<total, handlerKind, options, failures, completed, progressLog,
                 progressCalls, lastResult, lastError, firstError>>

\* `await sleep(batchDelayMs)` ends (line 565): the loop increments offset.
BatchSleepWake ==
  /\ enginePc = "batchSleep"
  /\ enginePc' = "loopHead"
  /\ offset' = offset + options.batchSize
  /\ UNCHANGED <<total, handlerKind, options, mode, localIndex, cursor,
                 activeWorkers, phase, attempts, failures, completed, progressLog,
                 progressCalls, invoked, claimed, indexArg, lastResult, lastError,
                 firstError>>

(***************************************************************************)
(* The engine under every configuration and an arbitrary handler.          *)
(***************************************************************************)
DelayChoices == {0, 400}

EngineOptions ==
  [batchSize : 0 .. MaxItems, batchDelayMs : {0, 1500}, parallel : 0 .. MaxParallel,
   perItemDelayMs : DelayChoices, maxRetries : 0 .. MaxRetries]

EngineInit ==
  /\ total \in 0 .. MaxItems
  /\ handlerKind = "abstract"
  /\ options \in EngineOptions
  /\ enginePc = "notCalled"
  /\ offset = 0 /\ mode = "seq" /\ localIndex = 0 /\ cursor = 0
  /\ activeWorkers = 0
  /\ phase = [i \in Items |-> "unclaimed"]
  /\ attempts = [i \in Items |-> 0]
  /\ failures = <<>> /\ completed = 0
  /\ progressLog = <<>>
  /\ progressCalls = [i \in Items |-> 0]
  /\ invoked = [i \in Items |-> 0]
  /\ claimed = [i \in Items |-> 0]
  /\ indexArg = [i \in Items |-> -1]
  /\ lastResult = [i \in Items |-> "none"]
  /\ lastError = [i \in Items |-> NoError]
  /\ firstError = [i \in Items |-> "none"]

EngineEnter ==
  /\ enginePc = "notCalled"
  /\ EngineCall(total, handlerKind, options)

\* The page and the store while the engine is studied alone.
PageIdle ==
  /\ parsedData = <<>> /\ categories = <<>>
  /\ categoryCreationChoices = <<>>
  /\ importing = FALSE
  /\ importPc = "idle" /\ importOutcome = "none"
  /\ categoriesSnapshot = <<>> /\ categoriesToCreate = <<>> /\ catPos = 0
  /\ createdCategoryIds = <<>> /\ createdCategories = <<>>
  /\ productsToProcess = <<>> /\ productsReadyForImport = <<>> /\ call = <<>>
  /\ storeProducts = {} /\ storeVariants = {} /\ nextId = 0
  /\ remoteLog = <<>> /\ remoteCalls = 0 /\ faults = 0
  /\ remoteCategories = {}
  /\ existingProducts = [byCode |-> <<>>, byName |-> <<>>]
  /\ existingLoaded = FALSE /\ currentBusiness = "A"
  /\ loadInFlight = FALSE /\ lastStep = "none"

\* The rest of the page while the engine is studied alone.
PageStays == UNCHANGED <<pageVars, reviewVars, csvVars, walkVars, importVars, storeVars>>

EngineAlone == EngineInit /\ PageIdle /\ CsvIdle /\ WalkIdle

EngineNext ==
  \/ EngineEnter /\ PageStays
  \/ LoopHead /\ PageStays
  \/ \E i \in Items : HandlerResolves(i) /\ PageStays
  \/ \E i \in Items : \E error \in HandlerErrors : HandlerRejects(i, error) /\ PageStays
  \/ \E i \in Items : BackoffWake(i) /\ PageStays
  \/ \E i \in Items : ItemDelayWake(i) /\ PageStays
  \/ BatchSleepWake /\ PageStays

SpecEngine == EngineAlone /\ [][EngineNext]_vars

\* The engine when the event loop keeps running: every timer fires and
\* every handler invocation settles.
SpecEngineFair == EngineAlone /\ [][EngineNext]_vars /\ WF_vars(EngineNext)

(***************************************************************************)
(* Category text.  A raw category string is modelled by the pieces that    *)
(* split('>') yields, each trimmed: "" is <<"">>, "Hardware > Handles" is  *)
(* <<"Hardware", "Handles">>, ">" is <<"", "">>.  A slug is the sequence   *)
(* of its '-'-separated words; a path key is a sequence of slugs.          *)
(* Stored category names hold no '>' and no outer blanks, and stored slugs *)
(* are lower-case.                                                         *)
(***************************************************************************)
RawEmpty == <<"">>

\* String.prototype.toLowerCase on the texts of the model
Lower(text) ==
  CASE text \in {"Hardware", "HARDWARE"} -> "hardware"
    [] text = "Handles" -> "handles"
    [] text = "Tools" -> "tools"
    [] text = "Door Handles" -> "door handles"
    [] OTHER -> text

\* slugify (lines 200-207): lower-case, drop what is not a word character,
\* blank or '-', turn runs of blanks, '_' and '-' into one '-', strip the
\* outer '-'.
Slugify(text) ==
  CASE text \in {"Hardware", "HARDWARE", "hardware"} -> <<"hardware">>
    [] text \in {"Handles", "handles"} -> <<"handles">>
    [] text \in {"Tools", "tools"} -> <<"tools">>
    [] text \in {"Door Handles", "door handles"} -> <<"door", "handles">>
    [] text \in {"", "&"} -> <<>>
    [] OTHER -> <<text>>

RECURSIVE SlugifyPieces(_)
\* slugify of a whole raw string: '>' is dropped and the blanks around it
\* become one '-', so the words of the pieces are joined.
SlugifyPieces(raw) ==
  IF raw = <<>> THEN <<>> ELSE Slugify(Head(raw)) \o SlugifyPieces(Tail(raw))

\* rawValue.trim().toLowerCase() of a whole raw string
LowerPieces(raw) == [k \in 1 .. Len(raw) |-> Lower(raw[k])]

\* parseCategorySegments (lines 213-222)
ParseCategorySegments(raw) == SelectSeq(raw, LAMBDA piece : piece # "")

\* buildCategoryPathKey (lines 224-226)
BuildCategoryPathKey(segments) ==
  [k \in 1 .. Len(segments) |-> Slugify(segments[k])]

NoCategory == [id |-> Null, name |-> "", slug |-> <<>>, parentId |-> Null]

SetMax(S) == CHOOSE x \in S : \A y \in S : y <= x

\* Mutant: no segment is found in the tree.
FindNoCategory(cats, parentId, segment) == NoCategory

\* findCategoryInIndex over buildCategoryIndexByParent(cats) (lines 345-389):
\* in the bucket of the parent, the name entry first, then the slug entry;
\* a later category of the list overwrites the entry of an earlier one.
FindCategoryInIndex(cats, parentId, segment) ==
  LET nameHits == {k \in 1 .. Len(cats) :
                     cats[k].parentId = parentId /\ Lower(cats[k].name) = Lower(segment)}
      slugHits == {k \in 1 .. Len(cats) :
                     /\ cats[k].parentId = parentId
                     /\ cats[k].slug # <<>>
                     /\ cats[k].slug = Slugify(segment)}
  IN IF nameHits # {} THEN cats[SetMax(nameHits)]
     ELSE IF Slugify(segment) # <<>> /\ slugHits # {} THEN cats[SetMax(slugHits)]
     ELSE NoCategory

\* resolveCategoryFromMaps (lines 293-343) with the slug and name maps of
\* cats: the whole string by slug, then by lower-cased name.
ResolveCategoryFromMaps(raw, cats) ==
  LET slugValue == SlugifyPieces(raw)
      slugHits == {k \in 1 .. Len(cats) : cats[k].slug # <<>> /\ cats[k].slug = slugValue}
      nameHits == {k \in 1 .. Len(cats) : <<Lower(cats[k].name)>> = LowerPieces(raw)}
  IN IF raw = RawEmpty THEN [id |-> Null, matchType |-> "none"]
     ELSE IF slugValue # <<>> /\ slugHits # {}
     THEN [id |-> cats[SetMax(slugHits)].id, matchType |-> "slug"]
     ELSE IF nameHits # {}
     THEN [id |-> cats[SetMax(nameHits)].id, matchType |-> "name"]
     ELSE [id |-> Null, matchType |-> "none"]

KeyNeverSeen(props, key) == FALSE

\* proposals.has(key) (line 156)
HasKey(props, key) == \E k \in 1 .. Len(props) : props[k].key = key

RECURSIVE ProposeSegments(_, _, _, _, _)
\* The segments.forEach of buildProposedCategoriesForProducts (lines 145-172).
ProposeSegments(segments, cats, parentId, parentPath, props) ==
  IF segments = <<>> THEN props
  ELSE LET segment == Head(segments)
           existing == FindCategoryInIndex(cats, parentId, segment)
           nextPath == Append(parentPath, segment)
           key == BuildCategoryPathKey(nextPath)
           proposal == [key |-> key, path |-> nextPath, name |-> segment,
                        slug |-> Slugify(segment), parentExistingId |-> parentId,
                        parentKey |-> IF Len(parentPath) > 0
                                      THEN BuildCategoryPathKey(parentPath) ELSE <<>>,
                        depth |-> Len(nextPath)]
       IN IF existing.id # Null
          THEN ProposeSegments(Tail(segments), cats, existing.id,
                               Append(parentPath, existing.name), props)
          ELSE ProposeSegments(Tail(segments), cats, Null, nextPath,
                               IF HasKey(props, key) THEN props ELSE Append(props, proposal))

RECURSIVE ProposeProducts(_, _, _)
\* The products.forEach of buildProposedCategoriesForProducts (lines 132-173).
ProposeProducts(products, cats, props) ==
  IF products = <<>> THEN props
  ELSE LET product == Head(products)
           segments == ParseCategorySegments(product.category) IN
       ProposeProducts(Tail(products), cats,
         IF product.category = RawEmpty \/ product.categoryId # Null \/ segments = <<>>
         THEN props
         ELSE ProposeSegments(segments, cats, Null, <<>>, props))

\* localeCompare on the texts of the model
TextRank(text) ==
  CASE text = "&" -> 1
    [] text = "Door Handles" -> 2
    [] text = "Handles" -> 3
    [] text = "hardware" -> 4
    [] text = "Hardware" -> 5
    [] text = "HARDWARE" -> 6
    [] text = "Tools" -> 7
    [] OTHER -> 0

RECURSIVE LabelBefore(_, _)
\* a.label.localeCompare(b.label) < 0 for labels path.join(' > ')
LabelBefore(a, b) ==
  IF a = <<>> THEN b # <<>>
  ELSE IF b = <<>> THEN FALSE
  ELSE IF Head(a) = Head(b) THEN LabelBefore(Tail(a), Tail(b))
  ELSE TextRank(Head(a)) < TextRank(Head(b))

\* the comparator of lines 175-180: depth, then label
ProposalBefore(a, b) ==
  IF a.depth # b.depth THEN a.depth < b.depth ELSE LabelBefore(a.path, b.path)

\* the comparator of line 1335: depth only
ShallowerFirst(a, b) == a.depth < b.depth

\* a sorts before b under the comparator named by `order`
SortsBefore(order, a, b) ==
  IF order = "depthThenLabel" THEN ProposalBefore(a, b) ELSE ShallowerFirst(a, b)

RECURSIVE InsertSorted(_, _, _)
InsertSorted(sorted, x, order) ==
  IF sorted = <<>> THEN <<x>>
  ELSE IF SortsBefore(order, x, Head(sorted)) THEN <<x>> \o sorted
  ELSE <<Head(sorted)>> \o InsertSorted(Tail(sorted), x, order)

RECURSIVE StableSort(_, _)
\* Array.prototype.sort, which is stable
StableSort(seq, order) ==
  IF seq = <<>> THEN <<>>
  ELSE InsertSorted(StableSort(SubSeq(seq, 1, Len(seq) - 1), order), seq[Len(seq)], order)

\* buildProposedCategoriesForProducts (lines 120-181)
BuildProposedCategoriesForProducts(products, cats) ==
  IF products = <<>> THEN <<>>
  ELSE StableSort(ProposeProducts(products, cats, <<>>), "depthThenLabel")

(***************************************************************************)
(* Duplicate detection.  A product document is a record with id,           *)
(* businessId, productCode ("" when the document has none), name, the item *)
(* that created it (-1 for a document that was there before) and           *)
(* categoryId.                                                             *)
(***************************************************************************)
\* normalizeKey (lines 815-817): trim and lower-case, on the texts of the model
NormalizeKey(value) ==
  CASE value \in {"S-106", "s-106"} -> "s-106"
    [] value \in {"Handle", "handle", "HANDLE"} -> "handle"
    [] value \in {"Constructor", "constructor"} -> "constructor"
    [] value \in {"Hinge", "hinge"} -> "hinge"
    [] OTHER -> Lower(value)

NoMatch == [id |-> Null, name |-> "", type |-> "none"]

LastListed(docs) == CHOOSE d \in docs : \A e \in docs : e.id <= d.id

\* The index loadExistingProducts builds from a listing (lines 722-748): a
\* later document overwrites the entry of an earlier one with the same key.
BuildIndex(docs) ==
  LET codeKeys == {NormalizeKey(d.productCode) : d \in docs} \ {""}
      nameKeys == {NormalizeKey(d.name) : d \in docs} \ {""}
      Meta(d) == [id |-> d.id, name |-> d.name] IN
  [byCode |-> [key \in codeKeys |->
                 Meta(LastListed({d \in docs : NormalizeKey(d.productCode) = key}))],
   byName |-> [key \in nameKeys |->
                 Meta(LastListed({d \in docs : NormalizeKey(d.name) = key}))]]

\* byCode and byName are object literals (lines 594, 723-724): a read of
\* a key they do not hold gives the member of Object.prototype of that
\* name, if there is one.  The keys are lower-case, and these are the
\* lower-case members.
InheritedKeys == {"constructor", "__proto__"}

\* map[key] is truthy
Truthy(map, key) == key \in DOMAIN map \/ key \in InheritedKeys

\* map[key] as a meta: a member of Object.prototype has no id and no name.
MetaAt(map, key) ==
  IF key \in DOMAIN map THEN map[key] ELSE [id |-> Null, name |-> ""]

\* detectExistingProduct (lines 819-840)
DetectExistingProduct(productCode, name, index) ==
  LET codeKey == NormalizeKey(productCode)
      nameKey == NormalizeKey(name) IN
  IF codeKey # "" /\ Truthy(index.byCode, codeKey)
  THEN [id |-> MetaAt(index.byCode, codeKey).id,
        name |-> MetaAt(index.byCode, codeKey).name, type |-> "code"]
  ELSE IF nameKey # "" /\ Truthy(index.byName, nameKey)
  THEN [id |-> MetaAt(index.byName, nameKey).id,
        name |-> MetaAt(index.byName, nameKey).name, type |-> "name"]
  ELSE NoMatch

\* Mutant: a detection keeps the action the product has.
DetectionKeepsAction(product, index) ==
  LET existing == DetectExistingProduct(product.productCode, product.name, index) IN
  [product EXCEPT !.existingProductId = existing.id,
                  !.existingProductName = existing.name,
                  !.existingMatchType = existing.type]

\* The map callback of the detection effect (lines 849-881).
DetectionStep(product, index) ==
  LET existing == DetectExistingProduct(product.productCode, product.name, index) IN
  IF existing.type # "none"
  THEN IF product.existingProductId = existing.id /\ product.existingMatchType = existing.type
       THEN product
       ELSE [product EXCEPT !.existingProductId = existing.id,
                            !.existingProductName = existing.name,
                            !.existingMatchType = existing.type,
                            !.action = IF product.existingProductId # Null THEN @ ELSE "skip"]
  ELSE IF product.existingProductId # Null
  THEN [product EXCEPT !.existingProductId = Null,
                       !.existingProductName = "",
                       !.existingMatchType = "none",
                       !.action = IF @ = "skip" THEN "skip" ELSE "create"]
  ELSE product

\* The detection effect (lines 842-887) over the parsed products.
DetectionPass(products, index) ==
  [k \in 1 .. Len(products) |-> DetectionStep(products[k], index)]

\* productsWithActions of parseCSV (lines 1042-1070) for one grouped product.
ParsedProduct(draft, index, cats) ==
  LET resolved == ResolveCategoryFromMaps(draft.category, cats)
      existing == DetectExistingProduct(draft.productCode, draft.name, index) IN
  [productCode |-> draft.productCode, name |-> draft.name,
   category |-> draft.category, categoryId |-> resolved.id,
   categoryMatchType |-> resolved.matchType, variants |-> draft.variants,
   action |-> IF existing.type # "none" THEN "skip" ELSE "create",
   existingProductId |-> existing.id, existingProductName |-> existing.name,
   existingMatchType |-> existing.type]

\* Mutant: every row starts a product of its own.
AddRowUngrouped(products, row) ==
  Append(products, [productCode |-> row.productCode, name |-> row.name,
                    category |-> row.category, variants |-> 1])

\* The body of rows.forEach in parseCSV (lines 1014-1040): the first row of
\* a product code makes the product, every row adds a variant draft to it.
AddRow(products, row) ==
  IF \E k \in 1 .. Len(products) : products[k].productCode = row.productCode
  THEN [k \in 1 .. Len(products) |->
          IF products[k].productCode = row.productCode
          THEN [products[k] EXCEPT !.variants = @ + 1]
          ELSE products[k]]
  ELSE Append(products, [productCode |-> row.productCode, name |-> row.name,
                         category |-> row.category, variants |-> 1])

RECURSIVE GroupRows(_, _)
\* productMap of parseCSV (lines 1012-1040), in insertion order.
GroupRows(rows, products) ==
  IF rows = <<>> THEN products
  ELSE GroupRows(Tail(rows), AddRow(products, Head(rows)))

\* parseCSV from the rows to productsWithActions (lines 1012-1071).
ParseRows(rows, index, cats) ==
  LET grouped == GroupRows(rows, <<>>) IN
  [k \in 1 .. Len(grouped) |-> ParsedProduct(grouped[k], index, cats)]

(***************************************************************************)
(* The review state that handleImport reads.                               *)
(***************************************************************************)
Chosen(choices, key) == key \in DOMAIN choices /\ choices[key]

ProposalKeys(props) == {props[k].key : k \in 1 .. Len(props)}

\* proposedCategories (lines 605-608)
ProposedCategories == BuildProposedCategoriesForProducts(parsedData, categories)

\* categoriesSelectedForCreation (lines 627-629)
CategoriesSelectedForCreation ==
  SelectSeq(ProposedCategories, LAMBDA pr : Chosen(categoryCreationChoices, pr.key))

\* Mutant: every choice is reset to true.
SyncChoicesReset(prev, props) == [key \in ProposalKeys(props) |-> TRUE]

\* The effect of lines 609-626: one choice per proposal, kept by key,
\* true for a new key.
SyncChoices(prev, props) ==
  [key \in ProposalKeys(props) |-> IF key \in DOMAIN prev THEN prev[key] ELSE TRUE]

\* The effect of lines 889-945 on one product: the category fields follow
\* resolveCategory(product.category).
ResolveEffect(product, cats) ==
  LET resolved == ResolveCategoryFromMaps(product.category, cats) IN
  [product EXCEPT !.categoryId = resolved.id, !.categoryMatchType = resolved.matchType]

ResolveAll(products, cats) ==
  [k \in 1 .. Len(products) |-> ResolveEffect(products[k], cats)]

\* selectedForImport (line 1159) / productsToProcess (line 1240)
SelectedForImport(products) == SelectSeq(products, LAMBDA p : p.action # "skip")

RECURSIVE WalkResolvable(_, _, _, _, _)
\* The segment loop of canResolve / canResolveCategoryForProduct.
WalkResolvable(segments, cats, parentId, parentPath, selectedKeys) ==
  IF segments = <<>> THEN TRUE
  ELSE LET segment == Head(segments)
           existing == FindCategoryInIndex(cats, parentId, segment)
           nextPath == Append(parentPath, segment) IN
       IF existing.id # Null
       THEN WalkResolvable(Tail(segments), cats, existing.id,
                           Append(parentPath, existing.name), selectedKeys)
       ELSE IF BuildCategoryPathKey(nextPath) \notin selectedKeys THEN FALSE
       ELSE WalkResolvable(Tail(segments), cats, Null, nextPath, selectedKeys)

\* canResolve of unresolvedAfterPlanCount (lines 1176-1211)
CanResolve(product, cats, selectedKeys) ==
  \/ product.categoryId # Null
  \/ product.category = RawEmpty
  \/ ParseCategorySegments(product.category) = <<>>
  \/ WalkResolvable(ParseCategorySegments(product.category), cats, Null, <<>>,
                    selectedKeys)

\* unresolvedAfterPlanCount (lines 1164-1214)
UnresolvedAfterPlanCount ==
  LET selected == SelectedForImport(parsedData)
      selectedKeys == ProposalKeys(CategoriesSelectedForCreation) IN
  IF selected = <<>> THEN 0
  ELSE Len(SelectSeq(selected, LAMBDA p : ~CanResolve(p, categories, selectedKeys)))

\* Mutant: the validation of handleImport lets every product pass.
CanResolveAnything(product, cats, selectedKeys) == TRUE

\* canResolveCategoryForProduct of handleImport (lines 1282-1317)
CanResolveCategoryForProduct(product, cats, selectedKeys) ==
  \/ product.categoryId # Null
  \/ product.category = RawEmpty
  \/ ParseCategorySegments(product.category) = <<>>
  \/ WalkResolvable(ParseCategorySegments(product.category), cats, Null, <<>>,
                    selectedKeys)

(***************************************************************************)
(* handleImport                                                            *)
(***************************************************************************)
ImportRateLimitConfig ==
  [batchSize |-> 3, batchDelayMs |-> 1500, parallel |-> 1, perItemDelayMs |-> 400,
   maxRetries |-> 5]

Put(map, key, value) ==
  [x \in (DOMAIN map) \cup {key} |-> IF x = key THEN value ELSE map[x]]

\* a path key, as a string, is truthy unless it is "": one segment, empty slug
KeyTruthy(key) == key # <<>> /\ key # << <<>> >>

\* Lines 1354-1357: the parent of a proposal about to be created.
ParentOf(proposal, ids) ==
  IF proposal.parentExistingId # Null THEN proposal.parentExistingId
  ELSE IF KeyTruthy(proposal.parentKey) /\ proposal.parentKey \in DOMAIN ids
  THEN ids[proposal.parentKey]
  ELSE Null

\* Lines 1365-1368: the slug sent with the new category.
FallbackSlug(proposal) ==
  IF proposal.slug # <<>> THEN proposal.slug
  ELSE IF Slugify(proposal.name) # <<>> THEN Slugify(proposal.name)
  ELSE <<Lower(proposal.name)>>

\* The import button can be clicked (line 1902, outside demo mode);
\* handleImport itself has no check of `importing` (lines 1217-1252).
ImportButtonEnabled ==
  /\ ~importing
  /\ SelectedForImport(parsedData) # <<>>
  /\ UnresolvedAfterPlanCount = 0

RECURSIVE SkipReused(_, _, _, _)
\* The creation loop (lines 1353-1363) from position pos up to the first
\* proposal that needs a createDocument: a proposal found in the index is
\* mapped to the category found.
SkipReused(queue, pos, ids, index) ==
  IF pos > Len(queue) THEN [pos |-> pos, ids |-> ids]
  ELSE LET proposal == queue[pos]
           existing == FindCategoryInIndex(index, ParentOf(proposal, ids), proposal.name) IN
       IF existing.id # Null
       THEN SkipReused(queue, pos + 1, Put(ids, proposal.key, existing.id), index)
       ELSE [pos |-> pos, ids |-> ids]

\* Lines 1432-1480 for one product: by id in the post-creation categories,
\* else by slug or name of the whole string.
ReResolve(product, cats) ==
  IF product.categoryId # Null /\ \E k \in 1 .. Len(cats) : cats[k].id = product.categoryId
  THEN [product EXCEPT !.categoryMatchType =
          IF product.categoryMatchType = "none" THEN "name" ELSE @]
  ELSE ResolveEffect(product, cats)

\* Mutant: the check of lines 1482-1494 lets unresolved products through.
UnresolvedAfterCreationIgnored(products) == <<>>

\* unresolvedAfterCreation (lines 1482-1484)
UnresolvedAfterCreation(products) ==
  SelectSeq(products, LAMBDA p : p.category # RawEmpty /\ p.categoryId = Null)

IdleCall == [op |-> "none", target |-> Null, pending |-> <<>>, draft |-> 0]

LogEntry(op, item, id, parent, draft, categoryId, raw) ==
  [op |-> op, item |-> item, id |-> id, parent |-> parent, draft |-> draft,
   categoryId |-> categoryId, raw |-> raw]

ImportFrame ==
  UNCHANGED <<categoriesSnapshot, categoriesToCreate, catPos, createdCategoryIds,
              createdCategories, productsToProcess, productsReadyForImport, call>>

\* handleImport returns before its first remote call.
EndEarly(outcome) ==
  /\ importOutcome' = outcome
  /\ importPc' = "idle"
  /\ UNCHANGED <<engineVars, pageVars, storeVars>>
  /\ ImportFrame

\* Lines 1419-1494 and 1656-1660: merge the created categories into the
\* shared list, re-resolve the products, stop if one stays unresolved, else
\* set the importing flag and hand the products to processWithRateLimit.
FinishCategoryPhase(ids, created, snapshot, toProcess) ==
  LET categoriesAfterCreation == snapshot \o created
      toAdd == SelectSeq(created, LAMBDA c :
                 ~\E k \in 1 .. Len(categories) : categories[k].id = c.id)
      merged == categories \o toAdd
      ready == [k \in 1 .. Len(toProcess) |->
                  ReResolve(toProcess[k], categoriesAfterCreation)] IN
  /\ categories' = merged
  /\ parsedData' = ResolveAll(parsedData, merged)
  /\ categoryCreationChoices' =
       SyncChoices(categoryCreationChoices,
                   BuildProposedCategoriesForProducts(parsedData', merged))
  /\ createdCategoryIds' = ids
  /\ createdCategories' = created
  /\ catPos' = 0
  /\ productsReadyForImport' = ready
  /\ IF UnresolvedAfterCreation(ready) # <<>>
     THEN /\ importOutcome' = "unresolvedAfterCreation"
          /\ importPc' = "idle"
          /\ UNCHANGED <<importing, call, engineVars>>
     ELSE /\ importOutcome' = "none"
          /\ importPc' = "writing"
          /\ importing' = TRUE
          /\ call' = [i \in 0 .. (Len(ready) - 1) |-> IdleCall]
          /\ EngineCall(Len(ready), "importProduct", ImportRateLimitConfig)

\* Mutant: a created category is merged into the shared list at once.
RunCategoryLoopMergingEach(queue, pos, ids, created, snapshot, toProcess) ==
  LET r == SkipReused(queue, pos, ids, snapshot \o created) IN
  IF r.pos <= Len(queue)
  THEN /\ importPc' = "categoryCall"
       /\ importOutcome' = "none"
       /\ catPos' = r.pos
       /\ createdCategoryIds' = r.ids
       /\ createdCategories' = created
       /\ remoteCalls' = remoteCalls + 1
       /\ categories' = snapshot \o created
       /\ UNCHANGED <<engineVars, parsedData, categoryCreationChoices, importing,
                      productsReadyForImport, call>>
  ELSE /\ FinishCategoryPhase(r.ids, created, snapshot, toProcess)
       /\ UNCHANGED remoteCalls

\* The creation loop from position pos: up to the next createDocument, or
\* through to the end of the category phase.
RunCategoryLoop(queue, pos, ids, created, snapshot, toProcess) ==
  LET r == SkipReused(queue, pos, ids, snapshot \o created) IN
  IF r.pos <= Len(queue)
  THEN /\ importPc' = "categoryCall"
       /\ importOutcome' = "none"
       /\ catPos' = r.pos
       /\ createdCategoryIds' = r.ids
       /\ createdCategories' = created
       /\ remoteCalls' = remoteCalls + 1
       /\ UNCHANGED <<engineVars, pageVars, productsReadyForImport, call>>
  ELSE /\ FinishCategoryPhase(r.ids, created, snapshot, toProcess)
       /\ UNCHANGED remoteCalls

\* handleImport from the click to its first await (lines 1217-1371).
HandleImport(confirmed) ==
  LET toProcess == SelectedForImport(parsedData)
      selectedCategoryKeys == ProposalKeys(CategoriesSelectedForCreation)
      unresolvedProducts ==
        SelectSeq(toProcess, LAMBDA p :
          ~CanResolveCategoryForProduct(p, categories, selectedCategoryKeys))
      queue == StableSort(CategoriesSelectedForCreation, "depth") IN
  /\ importPc = "idle"
  /\ importOutcome \in {"none", "noData", "noSelection", "declined", "unresolved"}
  /\ UNCHANGED <<reviewVars, csvVars, walkVars>>
  /\ IF parsedData = <<>> THEN EndEarly("noData")
     ELSE IF toProcess = <<>> THEN EndEarly("noSelection")
     ELSE IF ~confirmed THEN EndEarly("declined")
     ELSE IF unresolvedProducts # <<>> THEN EndEarly("unresolved")
     ELSE /\ categoriesSnapshot' = categories
          /\ categoriesToCreate' = queue
          /\ productsToProcess' = toProcess
          /\ RunCategoryLoop(queue, 1, <<>>, <<>>, categories, toProcess)
          /\ UNCHANGED <<storeProducts, storeVariants, remoteCategories, nextId,
                         remoteLog, faults>>

\* createDocument of a category returns (lines 1371-1416); the loop goes on.
CategoryCreated ==
  /\ importPc = "categoryCall"
  /\ LET proposal == categoriesToCreate[catPos]
         parentId == ParentOf(proposal, createdCategoryIds)
         category == [id |-> nextId, name |-> proposal.name,
                      slug |-> FallbackSlug(proposal), parentId |-> parentId] IN
     /\ nextId' = nextId + 1
     /\ remoteLog' = Append(remoteLog,
          LogEntry("createCategory", -1, nextId, parentId, 0, Null, proposal.path))
     /\ RunCategoryLoop(categoriesToCreate, catPos + 1,
                        Put(createdCategoryIds, proposal.key, nextId),
                        Append(createdCategories, category),
                        categoriesSnapshot, productsToProcess)
  /\ UNCHANGED <<categoriesSnapshot, categoriesToCreate, productsToProcess,
                 storeProducts, storeVariants, remoteCategories, faults, reviewVars,
                 csvVars, walkVars>>

\* createDocument of a category throws: runWithRequestPause rethrows and
\* handleImport rejects, outside any try block.
CategoryCallFails ==
  /\ importPc = "categoryCall"
  /\ faults < MaxFaults
  /\ faults' = faults + 1
  /\ importPc' = "idle"
  /\ importOutcome' = "threw"
  /\ UNCHANGED <<engineVars, pageVars, reviewVars, csvVars, walkVars, storeProducts,
                 storeVariants, remoteCategories,
                 nextId, remoteLog, remoteCalls>>
  /\ ImportFrame

(***************************************************************************)
(* importProduct (lines 1498-1654), one remote call at a time.  call[i] is *)
(* the request item i is waiting on: its operation, the target product id, *)
(* the variant documents still to delete and the variant draft to create.  *)
(***************************************************************************)
RECURSIVE Ascending(_)
\* the documents of a listing, as a list
Ascending(ids) ==
  IF ids = {} THEN <<>>
  ELSE LET least == CHOOSE x \in ids : \A y \in ids : x <= y IN
       <<least>> \o Ascending(ids \ {least})

\* The first request of importProduct (lines 1556, 1566, 1612).
FirstCall(i) ==
  LET product == productsReadyForImport[i + 1] IN
  IF product.action = "update" /\ product.existingProductId # Null
  THEN [IdleCall EXCEPT !.op = "updateProduct", !.target = product.existingProductId]
  ELSE [IdleCall EXCEPT !.op = "createProduct"]

\* Lines 1627-1653 from variant draft number draft on.
VariantsFrom(product, target, draft) ==
  IF draft <= product.variants
  THEN [IdleCall EXCEPT !.op = "createVariant", !.target = target, !.draft = draft]
  ELSE IdleCall

\* Lines 1602-1610 over the documents still to delete.
DeletesFrom(product, target, pending) ==
  IF pending # <<>>
  THEN [IdleCall EXCEPT !.op = "deleteVariant", !.target = target, !.pending = pending]
  ELSE VariantsFrom(product, target, 1)

\* Mutant: every listing of the variants of a product is empty.
ListedNone(target, tagged) == {}

\* listDocuments on the variants of a product, with or without the
\* businessId filter (lines 1577-1600).
Listed(target, tagged) ==
  {v.id : v \in {w \in storeVariants : w.productId = target /\ (tagged => w.tagged)}}

\* The request that follows the one item i waits on, once it succeeded.
NextCall(i) ==
  LET c == call[i]
      product == productsReadyForImport[i + 1] IN
  CASE c.op = "updateProduct" -> [c EXCEPT !.op = "listVariants"]
    [] c.op = "listVariants" ->
         IF Listed(c.target, TRUE) = {}
         THEN [c EXCEPT !.op = "listVariantsFallback"]
         ELSE DeletesFrom(product, c.target, Ascending(Listed(c.target, TRUE)))
    [] c.op = "listVariantsFallback" ->
         DeletesFrom(product, c.target, Ascending(Listed(c.target, FALSE)))
    [] c.op = "deleteVariant" -> DeletesFrom(product, c.target, Tail(c.pending))
    [] c.op = "createProduct" -> VariantsFrom(product, nextId, 1)
    [] c.op = "createVariant" -> VariantsFrom(product, c.target, c.draft + 1)

\* What the request item i waits on does to the database when it succeeds.
ApplyCall(i) ==
  LET c == call[i]
      product == productsReadyForImport[i + 1] IN
  /\ storeProducts' =
       CASE c.op = "createProduct" ->
              storeProducts \cup {[id |-> nextId, businessId |-> currentBusiness,
                                   productCode |-> "", name |-> product.name,
                                   item |-> i, categoryId |-> product.categoryId]}
         [] c.op = "updateProduct" ->
              {IF d.id = c.target
               THEN [d EXCEPT !.categoryId = product.categoryId, !.name = product.name,
                              !.businessId = currentBusiness]
               ELSE d : d \in storeProducts}
         [] OTHER -> storeProducts
  /\ storeVariants' =
       CASE c.op = "createVariant" ->
              storeVariants \cup {[id |-> nextId, productId |-> c.target,
                                   draft |-> c.draft, item |-> i, tagged |-> TRUE]}
         [] c.op = "deleteVariant" -> {v \in storeVariants : v.id # Head(c.pending)}
         [] OTHER -> storeVariants
  /\ nextId' = IF c.op \in {"createProduct", "createVariant"} THEN nextId + 1 ELSE nextId
  /\ remoteLog' =
       IF c.op \in {"listVariants", "listVariantsFallback"} THEN remoteLog
       ELSE Append(remoteLog,
              LogEntry(c.op, i,
                       CASE c.op = "createProduct" -> nextId
                         [] c.op = "updateProduct" -> c.target
                         [] c.op = "deleteVariant" -> Head(c.pending)
                         [] OTHER -> nextId,
                       IF c.op \in {"createVariant", "deleteVariant"} THEN c.target ELSE Null,
                       c.draft, product.categoryId, product.category))

\* The calls of the items whose handler the engine step has just invoked.
StartedCalls(c) ==
  [j \in DOMAIN c |-> IF invoked'[j] > invoked[j] THEN FirstCall(j) ELSE c[j]]

Issued(before, after) ==
  Cardinality({j \in DOMAIN after : after[j].op # "none" /\ after[j] # before[j]})

WritingFrame ==
  UNCHANGED <<pageVars, reviewVars, csvVars, walkVars, importPc, importOutcome,
              categoriesSnapshot,
              categoriesToCreate, catPos, createdCategoryIds, createdCategories,
              productsToProcess, productsReadyForImport>>

\* A request of importProduct succeeds: the next request goes out, or the
\* handler resolves and executeItem goes on.
RemoteCallReturns(i) ==
  /\ importPc = "writing"
  /\ enginePc = "inBatch"
  /\ phase[i] = "handler"
  /\ call[i].op # "none"
  /\ ApplyCall(i)
  /\ UNCHANGED remoteCategories
  /\ LET next == NextCall(i) IN
     IF next.op # "none"
     THEN /\ call' = [call EXCEPT ![i] = next]
          /\ remoteCalls' = remoteCalls + 1
          /\ UNCHANGED engineVars
     ELSE /\ AfterHandler(i, TRUE, NoError)
          /\ call' = StartedCalls([call EXCEPT ![i] = IdleCall])
          /\ remoteCalls' = remoteCalls + Issued([call EXCEPT ![i] = IdleCall], call')
  /\ UNCHANGED faults
  /\ WritingFrame

\* A request of importProduct fails: runWithRequestPause rethrows, the
\* handler rejects, and executeItem retries or records the failure.
RemoteCallFails(i, error) ==
  /\ importPc = "writing"
  /\ enginePc = "inBatch"
  /\ phase[i] = "handler"
  /\ call[i].op # "none"
  /\ faults < MaxFaults
  /\ faults' = faults + 1
  /\ AfterHandler(i, FALSE, error)
  /\ call' = StartedCalls([call EXCEPT ![i] = IdleCall])
  /\ remoteCalls' = remoteCalls + Issued([call EXCEPT ![i] = IdleCall], call')
  /\ UNCHANGED <<storeProducts, storeVariants, remoteCategories, nextId, remoteLog>>
  /\ WritingFrame

\* A step of processWithRateLimit that is not the settling of a handler.
ImportEngineFrame ==
  /\ importPc = "writing"
  /\ call' = StartedCalls(call)
  /\ remoteCalls' = remoteCalls + Issued(call, call')
  /\ UNCHANGED <<storeProducts, storeVariants, remoteCategories, nextId, remoteLog, faults>>
  /\ WritingFrame

ImportLoopHead == LoopHead /\ ImportEngineFrame

ImportBackoffWake(i) == BackoffWake(i) /\ ImportEngineFrame

ImportItemDelayWake(i) == ItemDelayWake(i) /\ ImportEngineFrame

\* Mutant: the run ends without the finally block of lines 1711-1713.
ImportFinishNoFinally ==
  /\ importPc = "writing"
  /\ enginePc = "returned"
  /\ importPc' = "idle"
  /\ importOutcome' = IF failures # <<>> THEN "completedWithFailures" ELSE "completed"
  /\ UNCHANGED <<engineVars, pageVars, reviewVars, csvVars, walkVars, storeVars,
                 categoriesSnapshot,
                 categoriesToCreate, catPos, createdCategoryIds, createdCategories,
                 productsToProcess, productsReadyForImport, call>>

\* processWithRateLimit returned (lines 1679-1713).
ImportFinish ==
  /\ importPc = "writing"
  /\ enginePc = "returned"
  /\ importPc' = "idle"
  /\ importOutcome' = IF failures # <<>> THEN "completedWithFailures" ELSE "completed"
  /\ importing' = FALSE
  /\ UNCHANGED <<engineVars, parsedData, categories, categoryCreationChoices,
                 reviewVars, csvVars, walkVars, storeVars, categoriesSnapshot,
                 categoriesToCreate, catPos,
                 createdCategoryIds, createdCategories, productsToProcess,
                 productsReadyForImport, call>>

(***************************************************************************)
(* The import page with a reviewed file: the states handleImport can be    *)
(* clicked in.                                                             *)
(***************************************************************************)
Hardware == [id |-> 1, name |-> "Hardware", slug |-> <<"hardware">>, parentId |-> Null]

CategoryTrees == {<<>>, <<Hardware>>}

\* An existing product of the business with one variant document.
ExistingProduct ==
  [id |-> 11, businessId |-> "A", productCode |-> "S-106", name |-> "Handle",
   item |-> -1, categoryId |-> Null]

ExistingVariant == [id |-> 21, productId |-> 11, draft |-> 0, item |-> -1, tagged |-> TRUE]

\* A variant document of the existing product from before documents carried a
\* businessId: the filtered listing of lines 1577-1587 does not return it.
LegacyVariant == [id |-> 22, productId |-> 11, draft |-> 0, item |-> -1, tagged |-> FALSE]

\* The variant documents the existing product can have when the import starts.
VariantStores == {{ExistingVariant}, {LegacyVariant}, {ExistingVariant, LegacyVariant}}

RawCategories == {RawEmpty, <<"Hardware">>, <<"Hardware", "Handles">>, <<"Tools">>}

\* The rows of a reviewed file: a new product with two variant drafts, a
\* skipped one, and an update of the existing product with one draft.
ReviewedRows ==
  {[action |-> "create", existingProductId |-> Null, variants |-> 2],
   [action |-> "skip", existingProductId |-> Null, variants |-> 0],
   [action |-> "update", existingProductId |-> ExistingProduct.id, variants |-> 1]}

\* A parsed product after the category effect ran on it.
ReviewedProduct(raw, row, cats) ==
  LET matched == row.existingProductId # Null IN
  ResolveEffect([productCode |-> IF matched THEN "S-106" ELSE "N-1",
                 name |-> IF matched THEN "Handle" ELSE "New",
                 category |-> raw, categoryId |-> Null, categoryMatchType |-> "none",
                 variants |-> row.variants, action |-> row.action,
                 existingProductId |-> row.existingProductId,
                 existingProductName |-> IF matched THEN "Handle" ELSE "",
                 existingMatchType |-> IF matched THEN "code" ELSE "none"], cats)

ReviewedFiles(cats) ==
  UNION {[1 .. n -> {ReviewedProduct(raw, row, cats) :
                       raw \in RawCategories, row \in ReviewedRows}] :
           n \in 0 .. MaxProducts}

\* The page, the engine and the database when handleImport can be clicked,
\* but for the file, the categories and the stored variants.
ImportSetup ==
  /\ EngineIdle
  /\ categoryCreationChoices \in
       [ProposalKeys(BuildProposedCategoriesForProducts(parsedData, categories)) -> BOOLEAN]
  /\ importing = FALSE
  /\ importPc = "idle" /\ importOutcome = "none"
  /\ categoriesSnapshot = <<>> /\ categoriesToCreate = <<>> /\ catPos = 0
  /\ createdCategoryIds = <<>> /\ createdCategories = <<>>
  /\ productsToProcess = <<>> /\ productsReadyForImport = <<>> /\ call = <<>>
  /\ storeProducts = {ExistingProduct}
  /\ nextId = 100
  /\ remoteLog = <<>> /\ remoteCalls = 0 /\ faults = 0
  /\ remoteCategories = {}
  /\ existingProducts = BuildIndex(storeProducts)
  /\ existingLoaded = TRUE /\ currentBusiness = "A"
  /\ loadInFlight = FALSE /\ lastStep = "none"
  /\ CsvIdle
  /\ WalkIdle

ImportInit ==
  /\ categories \in CategoryTrees
  /\ parsedData \in ReviewedFiles(categories)
  /\ storeVariants = {ExistingVariant}
  /\ ImportSetup

RemoteErrors == {ErrRateLimited, ErrInvalid}

ImportNext ==
  \/ \E confirmed \in BOOLEAN : HandleImport(confirmed)
  \/ CategoryCreated
  \/ CategoryCallFails
  \/ ImportLoopHead
  \/ \E i \in Items : RemoteCallReturns(i)
  \/ \E i \in Items : \E error \in RemoteErrors : RemoteCallFails(i, error)
  \/ \E i \in Items : ImportBackoffWake(i)
  \/ \E i \in Items : ImportItemDelayWake(i)
  \/ ImportFinish

SpecImport == ImportInit /\ [][ImportNext]_vars

\* What an import does without the operator: requests settle, timers fire.
ImportProgress ==
  \/ CategoryCreated
  \/ CategoryCallFails
  \/ ImportLoopHead
  \/ \E i \in Items : RemoteCallReturns(i)
  \/ \E i \in Items : \E error \in RemoteErrors : RemoteCallFails(i, error)
  \/ \E i \in Items : ImportBackoffWake(i)
  \/ \E i \in Items : ImportItemDelayWake(i)
  \/ ImportFinish

\* The import when every request settles and every timer fires.
SpecImportFair == ImportInit /\ [][ImportNext]_vars /\ WF_vars(ImportProgress)

(***************************************************************************)
(* The import of files that update the existing product, over the variant  *)
(* documents the product can have.                                         *)
(***************************************************************************)
UpdateRows == {row \in ReviewedRows : row.action = "update"}

UpdateFiles(cats) ==
  UNION {[1 .. n -> {ReviewedProduct(raw, row, cats) :
                       raw \in RawCategories, row \in UpdateRows}] :
           n \in 1 .. MaxProducts}

ReplaceInit ==
  /\ categories \in CategoryTrees
  /\ parsedData \in UpdateFiles(categories)
  /\ storeVariants \in VariantStores
  /\ ImportSetup

SpecReplace == ReplaceInit /\ [][ImportNext]_vars

(***************************************************************************)
(* An import while someone else adds categories to the same business.      *)
(***************************************************************************)
\* The categories another session creates: a root Tools and a Handles
\* under Hardware.
OthersTools == [id |-> 31, name |-> "Tools", slug |-> <<"tools">>, parentId |-> Null]

OthersHandles ==
  [id |-> 32, name |-> "Handles", slug |-> <<"handles">>, parentId |-> Hardware.id]

\* The files of new products in the categories 'Tools' and 'Hardware >
\* Handles'.
RaceFiles(cats) ==
  UNION {[1 .. n -> {ReviewedProduct(raw,
                       [action |-> "create", existingProductId |-> Null, variants |-> 1],
                       cats) : raw \in {<<"Tools">>, <<"Hardware", "Handles">>}}] :
           n \in 1 .. MaxProducts}

RaceInit ==
  /\ categories \in CategoryTrees
  /\ parsedData \in RaceFiles(categories)
  /\ storeVariants = {ExistingVariant}
  /\ ImportSetup

\* Another session creates the category `doc`; the page is not told.
RemoteCategoryAdded(doc) ==
  /\ doc \notin remoteCategories
  /\ doc.parentId # Null => \E k \in 1 .. Len(categories) : categories[k].id = doc.parentId
  /\ remoteCategories' = remoteCategories \cup {doc}
  /\ UNCHANGED <<engineVars, pageVars, reviewVars, importVars, csvVars, walkVars,
                 storeProducts,
                 storeVariants, nextId, remoteLog, remoteCalls, faults>>

RaceNext ==
  \/ \E doc \in {OthersTools, OthersHandles} : RemoteCategoryAdded(doc)
  \/ ImportNext

SpecRace == RaceInit /\ [][RaceNext]_vars

\* The same when every request settles and every timer fires.
SpecRaceFair == RaceInit /\ [][RaceNext]_vars /\ WF_vars(ImportProgress)

(***************************************************************************)
(* The review session: parsing a file, the operator's action edits, the    *)
(* loads of the existing-product index and the switch of the business.     *)
(***************************************************************************)
OtherProduct ==
  [id |-> 12, businessId |-> "A", productCode |-> "", name |-> "hinge",
   item |-> -1, categoryId |-> Null]

TenantBProduct ==
  [id |-> 13, businessId |-> "B", productCode |-> "s-106", name |-> "Knob",
   item |-> -1, categoryId |-> Null]

ReviewDocs == {ExistingProduct, OtherProduct, TenantBProduct}

Businesses == {"A", "B"}

ImportActions == {"create", "update", "skip"}

\* The rows of the files the operator can choose in a review session.
Drafts ==
  {[productCode |-> "S-106", name |-> "Handle", category |-> RawEmpty],
   [productCode |-> "H-200", name |-> "Hinge", category |-> RawEmpty],
   [productCode |-> "N-1", name |-> "New", category |-> RawEmpty]}

\* Files with one row per product code.
Files ==
  {file \in UNION {[1 .. n -> Drafts] : n \in 0 .. MaxProducts} :
     \A j, k \in DOMAIN file : j # k => file[j].productCode # file[k].productCode}

\* The listing of loadExistingProducts (lines 699-717): the documents of the
\* business, or every document of the user when the business has none.
Listing(business) ==
  LET ofBusiness == {d \in storeProducts : d.businessId = business} IN
  IF ofBusiness = {} THEN storeProducts ELSE ofBusiness

ReviewFrame ==
  UNCHANGED <<engineVars, importVars, csvVars, walkVars, storeVariants,
              remoteCategories, nextId,
              remoteLog, remoteCalls, faults, categories, importing>>

\* parseCSV (lines 958-1082) on a file with the rows `file`.
ParseCSV(file) ==
  /\ parsedData' = ParseRows(file, existingProducts, categories)
  /\ categoryCreationChoices' =
       SyncChoices(categoryCreationChoices,
                   BuildProposedCategoriesForProducts(parsedData', categories))
  /\ lastStep' = "parse"
  /\ UNCHANGED <<existingProducts, existingLoaded, currentBusiness, loadInFlight,
                 storeProducts>>
  /\ ReviewFrame

\* updateProductAction (lines 1107-1113); the selector is rendered for the
\* duplicates only.
UpdateProductAction(index, action) ==
  /\ index \in 1 .. Len(parsedData)
  /\ parsedData[index].existingProductId # Null
  /\ parsedData' = [parsedData EXCEPT ![index].action = action]
  /\ lastStep' = "edit"
  /\ UNCHANGED <<categoryCreationChoices, existingProducts, existingLoaded,
                 currentBusiness, loadInFlight, storeProducts>>
  /\ ReviewFrame

\* applyBulkActionToDuplicates (lines 1115-1121); the buttons are rendered
\* when there is a duplicate.
ApplyBulkActionToDuplicates(action) ==
  /\ \E k \in 1 .. Len(parsedData) : parsedData[k].existingProductId # Null
  /\ parsedData' = [k \in 1 .. Len(parsedData) |->
                      IF parsedData[k].existingProductId # Null
                      THEN [parsedData[k] EXCEPT !.action = action]
                      ELSE parsedData[k]]
  /\ lastStep' = "edit"
  /\ UNCHANGED <<categoryCreationChoices, existingProducts, existingLoaded,
                 currentBusiness, loadInFlight, storeProducts>>
  /\ ReviewFrame

\* The load effect on a new business id (lines 688-692, 696-764): the index
\* is emptied, existingLoaded is reset and a load starts.  The detection
\* effect returns at its first line (843-845).
SwitchBusiness(business) ==
  /\ business # currentBusiness
  /\ currentBusiness' = business
  /\ existingProducts' = [byCode |-> <<>>, byName |-> <<>>]
  /\ existingLoaded' = FALSE
  /\ loadInFlight' = TRUE
  /\ lastStep' = "switch"
  /\ UNCHANGED <<parsedData, categoryCreationChoices, storeProducts>>
  /\ ReviewFrame

\* The load effect re-runs with the same business id: the pending load is
\* cancelled and a new one starts; the index stays.
ReloadExisting ==
  /\ existingLoaded
  /\ loadInFlight' = TRUE
  /\ lastStep' = "reload"
  /\ UNCHANGED <<parsedData, categoryCreationChoices, existingProducts,
                 existingLoaded, currentBusiness, storeProducts>>
  /\ ReviewFrame

\* loadExistingProducts completes (lines 718-750, 755-759): the index is
\* replaced, existingLoaded is set and the detection effect runs.
LoadExistingDone ==
  /\ loadInFlight
  /\ loadInFlight' = FALSE
  /\ existingProducts' = BuildIndex(Listing(currentBusiness))
  /\ existingLoaded' = TRUE
  /\ parsedData' = DetectionPass(parsedData, existingProducts')
  /\ lastStep' = "detect"
  /\ UNCHANGED <<categoryCreationChoices, currentBusiness, storeProducts>>
  /\ ReviewFrame

\* loadExistingProducts throws (lines 751-759): the index stays, and the
\* detection effect runs if existingLoaded changes.
LoadExistingFails ==
  /\ loadInFlight
  /\ loadInFlight' = FALSE
  /\ existingLoaded' = TRUE
  /\ parsedData' = IF existingLoaded THEN parsedData
                   ELSE DetectionPass(parsedData, existingProducts)
  /\ lastStep' = IF existingLoaded THEN "loadFailed" ELSE "detect"
  /\ UNCHANGED <<categoryCreationChoices, existingProducts, currentBusiness,
                 storeProducts>>
  /\ ReviewFrame

\* Someone else adds or removes a product document.
RemoteChange(doc) ==
  /\ storeProducts' = IF doc \in storeProducts THEN storeProducts \ {doc}
                      ELSE storeProducts \cup {doc}
  /\ lastStep' = "remote"
  /\ UNCHANGED <<parsedData, categoryCreationChoices, existingProducts,
                 existingLoaded, currentBusiness, loadInFlight>>
  /\ ReviewFrame

\* The page after mount: the first load of the existing products is pending.
ReviewInit ==
  /\ EngineIdle
  /\ parsedData = <<>> /\ categories = <<>>
  /\ categoryCreationChoices = <<>>
  /\ importing = FALSE
  /\ importPc = "idle" /\ importOutcome = "none"
  /\ categoriesSnapshot = <<>> /\ categoriesToCreate = <<>> /\ catPos = 0
  /\ createdCategoryIds = <<>> /\ createdCategories = <<>>
  /\ productsToProcess = <<>> /\ productsReadyForImport = <<>> /\ call = <<>>
  /\ storeProducts = ReviewDocs /\ storeVariants = {ExistingVariant}
  /\ nextId = 100
  /\ remoteLog = <<>> /\ remoteCalls = 0 /\ faults = 0
  /\ remoteCategories = {}
  /\ existingProducts = [byCode |-> <<>>, byName |-> <<>>]
  /\ existingLoaded = FALSE /\ currentBusiness = "A"
  /\ loadInFlight = TRUE /\ lastStep = "none"
  /\ CsvIdle
  /\ WalkIdle

ReviewNext ==
  \/ \E file \in Files : ParseCSV(file)
  \/ \E index \in 1 .. MaxProducts : \E action \in ImportActions :
       UpdateProductAction(index, action)
  \/ \E action \in ImportActions : ApplyBulkActionToDuplicates(action)
  \/ \E business \in Businesses : SwitchBusiness(business)
  \/ ReloadExisting
  \/ LoadExistingDone
  \/ LoadExistingFails
  \/ \E doc \in ReviewDocs : RemoteChange(doc)

SpecReview == ReviewInit /\ [][ReviewNext]_vars

(***************************************************************************)
(* A file parsed and imported into a business without products.            *)
(***************************************************************************)
RowS106 == [productCode |-> "S-106", name |-> "Handle", category |-> RawEmpty]

RowS107 == [productCode |-> "S-107", name |-> "Knob", category |-> RawEmpty]

RowT1 == [productCode |-> "T-1", name |-> "Drill", category |-> <<"Tools">>]

\* The file with two rows of S-106 and one row of S-107.
ExampleRows == <<RowS106, RowS106, RowS107>>

RowFiles == UNION {[1 .. n -> {RowS106, RowS107, RowT1}] : n \in 0 .. MaxRows}

\* The page on a business without products or categories, before a file is
\* chosen.
FreshInit ==
  /\ EngineIdle
  /\ parsedData = <<>> /\ categories = <<>>
  /\ categoryCreationChoices = <<>>
  /\ importing = FALSE
  /\ importPc = "idle" /\ importOutcome = "none"
  /\ categoriesSnapshot = <<>> /\ categoriesToCreate = <<>> /\ catPos = 0
  /\ createdCategoryIds = <<>> /\ createdCategories = <<>>
  /\ productsToProcess = <<>> /\ productsReadyForImport = <<>> /\ call = <<>>
  /\ storeProducts = {} /\ storeVariants = {}
  /\ nextId = 100
  /\ remoteLog = <<>> /\ remoteCalls = 0 /\ faults = 0
  /\ remoteCategories = {}
  /\ existingProducts = BuildIndex({})
  /\ existingLoaded = TRUE /\ currentBusiness = "A"
  /\ loadInFlight = FALSE /\ lastStep = "none"
  /\ CsvIdle
  /\ WalkIdle

\* The operator chooses a file, once, before the import.
ChooseFile(file) ==
  /\ importPc = "idle" /\ importOutcome \in {"none", "noData"}
  /\ lastStep = "none"
  /\ ParseCSV(file)

FreshNext ==
  \/ \E file \in RowFiles : ChooseFile(file)
  \/ ImportNext

SpecFresh == FreshInit /\ [][FreshNext]_vars

(***************************************************************************)
(* The category plan of the review: files whose rows name category paths,  *)
(* the category tree of the business, and the creation choices.            *)
(***************************************************************************)
Handles == [id |-> 2, name |-> "Handles", slug |-> <<"handles">>, parentId |-> 1]

\* What listBusinessCategories returns: nothing, the root Hardware, or
\* Hardware with its child Handles.
PlanTrees == {<<>>, <<Hardware>>, <<Hardware, Handles>>}

\* The category cells of the files, split at '>'.
PlanPaths ==
  {RawEmpty, <<"Hardware">>, <<"Hardware", "Handles">>, <<"Tools">>,
   <<"Tools", "Hardware">>}

\* S-106 is the code of a stored product, S-107 is new.
PlanRows ==
  {[productCode |-> code, name |-> "Knob", category |-> raw] :
     code \in {"S-106", "S-107"}, raw \in PlanPaths}

\* The files of at most MaxProducts rows, one row for a product code.
PlanFiles ==
  {file \in UNION {[1 .. n -> PlanRows] : n \in 0 .. MaxProducts} :
     \A j, k \in 1 .. Len(file) : j # k => file[j].productCode # file[k].productCode}

PlanFrame ==
  UNCHANGED <<engineVars, importVars, storeVars, csvVars, walkVars, importing,
              existingProducts,
              existingLoaded, currentBusiness, loadInFlight>>

\* toggleCategoryCreationChoice (lines 1123-1130); a checkbox is rendered
\* for each proposal.
ToggleCategoryCreationChoice(key, value) ==
  /\ key \in DOMAIN categoryCreationChoices
  /\ categoryCreationChoices' =
       IF categoryCreationChoices[key] = value THEN categoryCreationChoices
       ELSE [categoryCreationChoices EXCEPT ![key] = value]
  /\ lastStep' = "toggle"
  /\ UNCHANGED <<parsedData, categories>>
  /\ PlanFrame

\* bulkSetCategoryCreationChoice (lines 1132-1148)
BulkSetCategoryCreationChoice(value) ==
  /\ categoryCreationChoices' =
       IF DOMAIN categoryCreationChoices = {} THEN categoryCreationChoices
       ELSE IF \A key \in DOMAIN categoryCreationChoices :
                 categoryCreationChoices[key] = value
       THEN categoryCreationChoices
       ELSE [key \in DOMAIN categoryCreationChoices |-> value]
  /\ lastStep' = "bulk"
  /\ UNCHANGED <<parsedData, categories>>
  /\ PlanFrame

\* loadCategories (lines 799-811) returns `tree` (the empty list when the
\* call fails), and the effects of lines 889-945 and 609-626 follow.
LoadCategoriesDone(tree) ==
  /\ categories' = tree
  /\ parsedData' = ResolveAll(parsedData, tree)
  /\ categoryCreationChoices' =
       SyncChoices(categoryCreationChoices,
                   BuildProposedCategoriesForProducts(parsedData', tree))
  /\ lastStep' = "categories"
  /\ PlanFrame

\* The page of a business whose only product is S-106, before its
\* categories are loaded and before a file is chosen.
PlanInit ==
  /\ EngineIdle
  /\ parsedData = <<>> /\ categories = <<>>
  /\ categoryCreationChoices = <<>>
  /\ importing = FALSE
  /\ importPc = "idle" /\ importOutcome = "none"
  /\ categoriesSnapshot = <<>> /\ categoriesToCreate = <<>> /\ catPos = 0
  /\ createdCategoryIds = <<>> /\ createdCategories = <<>>
  /\ productsToProcess = <<>> /\ productsReadyForImport = <<>> /\ call = <<>>
  /\ storeProducts = {ExistingProduct} /\ storeVariants = {ExistingVariant}
  /\ nextId = 100
  /\ remoteLog = <<>> /\ remoteCalls = 0 /\ faults = 0
  /\ remoteCategories = {}
  /\ existingProducts = BuildIndex(storeProducts)
  /\ existingLoaded = TRUE /\ currentBusiness = "A"
  /\ loadInFlight = FALSE /\ lastStep = "none"
  /\ CsvIdle
  /\ WalkIdle

PlanNext ==
  \/ \E file \in PlanFiles : ParseCSV(file)
  \/ \E tree \in PlanTrees : LoadCategoriesDone(tree)
  \/ \E key \in DOMAIN categoryCreationChoices, value \in BOOLEAN :
       ToggleCategoryCreationChoice(key, value)
  \/ \E value \in BOOLEAN : BulkSetCategoryCreationChoice(value)
  \/ \E index \in 1 .. MaxProducts, action \in ImportActions :
       UpdateProductAction(index, action)

SpecPlan == PlanInit /\ [][PlanNext]_vars

(***************************************************************************)
(* Duplicate detection over files whose codes and names are, or are not,   *)
(* those of the stored products.                                           *)
(***************************************************************************)
DetectCodes == {"", "s-106", "S-107", "Constructor"}

DetectNames == {"", "HANDLE", "hinge", "Knob"}

DetectRows ==
  {[productCode |-> code, name |-> name, category |-> RawEmpty] :
     code \in DetectCodes, name \in DetectNames}

\* The files of at most MaxProducts rows, one row for a product code.
DetectFiles ==
  {file \in UNION {[1 .. n -> DetectRows] : n \in 0 .. MaxProducts} :
     \A j, k \in 1 .. Len(file) : j # k => file[j].productCode # file[k].productCode}

\* The page after loadExistingProducts, for a business that holds some of
\* the products S-106 'Handle' and 'hinge' (which has no code).
DetectInit ==
  /\ EngineIdle
  /\ parsedData = <<>> /\ categories = <<>>
  /\ categoryCreationChoices = <<>>
  /\ importing = FALSE
  /\ importPc = "idle" /\ importOutcome = "none"
  /\ categoriesSnapshot = <<>> /\ categoriesToCreate = <<>> /\ catPos = 0
  /\ createdCategoryIds = <<>> /\ createdCategories = <<>>
  /\ productsToProcess = <<>> /\ productsReadyForImport = <<>> /\ call = <<>>
  /\ storeProducts \in SUBSET {ExistingProduct, OtherProduct}
  /\ storeVariants = {}
  /\ nextId = 100
  /\ remoteLog = <<>> /\ remoteCalls = 0 /\ faults = 0
  /\ remoteCategories = {}
  /\ existingProducts = BuildIndex(storeProducts)
  /\ existingLoaded = TRUE /\ currentBusiness = "A"
  /\ loadInFlight = FALSE /\ lastStep = "none"
  /\ CsvIdle
  /\ WalkIdle

DetectNext ==
  \/ \E file \in DetectFiles : ChooseFile(file)
  \/ \E index \in 1 .. MaxProducts, action \in ImportActions :
       UpdateProductAction(index, action)
  \/ \E action \in ImportActions : ApplyBulkActionToDuplicates(action)

SpecDetect == DetectInit /\ [][DetectNext]_vars

(***************************************************************************)
(* The tokenizer on the text of a chosen file: a text written from records *)
(* of fields, or any text.                                                 *)
(***************************************************************************)
Chars == {Letter, Comma, Newline, Quote, Space}

\* The texts of at most `n` characters
Texts(n) == UNION {[1 .. k -> Chars] : k \in 0 .. n}

RECURSIVE DoubleQuotes(_)
\* Each quote character is written twice.
DoubleQuotes(field) ==
  IF field = <<>> THEN <<>>
  ELSE (IF Head(field) = Quote THEN <<Quote, Quote>> ELSE <<Head(field)>>)
         \o DoubleQuotes(Tail(field))

\* A field is written between quotes when it holds a comma, a quote or a
\* newline, and as it is otherwise.
SerializeField(field) ==
  IF \E k \in 1 .. Len(field) : field[k] \in {Comma, Quote, Newline}
  THEN <<Quote>> \o DoubleQuotes(field) \o <<Quote>>
  ELSE field

RECURSIVE JoinTexts(_, _)
JoinTexts(texts, separator) ==
  IF texts = <<>> THEN <<>>
  ELSE IF Len(texts) = 1 THEN texts[1]
  ELSE texts[1] \o <<separator>> \o JoinTexts(Tail(texts), separator)

\* The text of a file with the records `table`: the fields of a record
\* joined by commas, the records joined by newlines.
Serialize(table) ==
  JoinTexts([r \in 1 .. Len(table) |->
               JoinTexts([c \in 1 .. Len(table[r]) |-> SerializeField(table[r][c])],
                         Comma)],
            Newline)

\* The header record of the files
HeaderRecord == <<<<Letter>>, <<Letter, Letter>>>>

\* A header record and one data record of two fields, the first of at most
\* MaxField characters.
Tables ==
  {<<HeaderRecord, <<first, second>>>> : first \in Texts(MaxField), second \in Texts(1)}

CsvFrame == UNCHANGED <<engineVars, pageVars, reviewVars, importVars, storeVars, walkVars>>

\* parseCSV up to the rows (lines 958-1003) and its catch (1076-1078):
\* parseCSVLine(lines[0]) reads line.length, which throws when the text has
\* no line.
ParseCSVText ==
  /\ csvStatus = "chosen"
  /\ LET lines == SplitLines(csvText, <<>>, FALSE, <<>>) IN
     IF lines = <<>>
     THEN /\ csvStatus' = "failed"
          /\ UNCHANGED <<csvHeaders, csvRows>>
     ELSE /\ csvStatus' = "parsed"
          /\ csvHeaders' = ParseCSVLine(lines[1])
          /\ csvRows' = [k \in 1 .. Len(lines) - 1 |-> ParseCSVLine(lines[k + 1])]
  /\ UNCHANGED <<csvTable, csvText>>
  /\ CsvFrame

\* A file written from a table has been chosen.
RoundTripInit ==
  /\ EngineIdle
  /\ PageIdle
  /\ csvTable \in Tables
  /\ csvText = Serialize(csvTable)
  /\ csvHeaders = <<>> /\ csvRows = <<>>
  /\ csvStatus = "chosen"
  /\ WalkIdle

SpecRoundTrip == RoundTripInit /\ [][ParseCSVText]_vars

\* A file with any text of at most MaxText characters has been chosen.
TokensInit ==
  /\ EngineIdle
  /\ PageIdle
  /\ csvTable = <<>>
  /\ csvText \in Texts(MaxText)
  /\ csvHeaders = <<>> /\ csvRows = <<>>
  /\ csvStatus = "chosen"
  /\ WalkIdle

SpecTokens == TokensInit /\ [][ParseCSVText]_vars

(***************************************************************************)
(* getCategoryPath and getCategoryAncestry (lib/categories.ts), one loop   *)
(* iteration at a time, on any parentId graph over MaxCategories           *)
(* categories: parents that are null, categories of the lookup (cycles     *)
(* included) or ids the lookup does not hold.                              *)
(***************************************************************************)
CategoryIds == 1 .. MaxCategories

\* An id no category of the lookup has.
MissingId == MaxCategories + 1

\* Two categories may have the same name.
CategoryName(id) == IF id = 1 THEN "Hardware" ELSE "Handles"

Lookups ==
  {[id \in CategoryIds |-> [id |-> id, name |-> CategoryName(id), parentId |-> parent[id]]] :
     parent \in [CategoryIds -> {Null} \cup CategoryIds \cup {MissingId}]}

RECURSIVE Reverse(_)
\* Array.prototype.reverse
Reverse(seq) ==
  IF seq = <<>> THEN <<>> ELSE Append(Reverse(Tail(seq)), Head(seq))

\* Mutant: no id is ever recognised as visited.
HasNever(set, id) == FALSE

\* visited.has(currentId) (lines 121 and 144)
Has(set, id) == id \in set

\* What the loop pushes: category.name (line 131) or category.$id (line 154).
Pushed(category) ==
  IF walkFn = "getCategoryPath" THEN category.name ELSE category.id

\* One iteration of `while (currentId)` (lines 120-133 and 143-156); when
\* the loop ends the function returns path.reverse().
WalkStep ==
  /\ walkPc = "loop"
  /\ UNCHANGED <<walkFn, lookup, walkCategoryId>>
  /\ IF currentId = Null \/ Has(visited, currentId)
     THEN /\ path' = Reverse(path)
          /\ walkPc' = "returned"
          /\ UNCHANGED <<currentId, visited>>
     ELSE /\ visited' = visited \cup {currentId}
          /\ IF currentId \notin DOMAIN lookup
             THEN /\ path' = Reverse(path)
                  /\ walkPc' = "returned"
                  /\ UNCHANGED currentId
             ELSE /\ path' = Append(path, Pushed(lookup[currentId]))
                  /\ currentId' = lookup[currentId].parentId
                  /\ UNCHANGED walkPc
  /\ UNCHANGED <<engineVars, pageVars, reviewVars, importVars, storeVars, csvVars>>

\* A call of one of the two functions with any lookup and any id.
WalkInit ==
  /\ EngineIdle
  /\ PageIdle
  /\ CsvIdle
  /\ walkFn \in {"getCategoryPath", "getCategoryAncestry"}
  /\ lookup \in Lookups
  /\ walkCategoryId \in CategoryIds \cup {MissingId}
  /\ currentId = walkCategoryId
  /\ visited = {} /\ path = <<>>
  /\ walkPc = "loop"

\* The call runs on: nothing else is scheduled while the loop runs.
SpecWalk == WalkInit /\ [][WalkStep]_vars /\ WF_vars(WalkStep)

(***************************************************************************)
(* Properties of the engine.                                               *)
(***************************************************************************)
Terminal(i) == phase[i] \in {"delay", "finished"}
Executing(i) == phase[i] \in {"handler", "backoff", "delay"}
FailuresOf(i) == {k \in 1 .. Len(failures) : failures[k].index = i}
BatchOf(i) == i \div options.batchSize

\* C1: one item's failure never aborts the run.  Every item that reached its
\* terminal outcome has exactly one failures entry, under its global index,
\* if its last attempt threw and none if its handler succeeded; every entry
\* belongs to an item; and when the call returns every item is terminal.
C1_FailuresExact ==
  /\ \A k \in 1 .. Len(failures) : failures[k].index \in Items
  /\ \A i \in Items :
       Cardinality(FailuresOf(i)) =
         IF Terminal(i) /\ lastResult[i] = "threw" THEN 1 ELSE 0
  /\ \A i \in Items :
       \A k \in FailuresOf(i) : failures[k].error = lastError[i]
  /\ enginePc = "returned" =>
       \A i \in Items : phase[i] = "finished" /\ lastResult[i] \in {"ok", "threw"}

\* C1 witness: a returned run in which one item was given up, at an index
\* other than 0 of a later batch, and a sibling succeeded after a retry.
C1_Witness ==
  /\ enginePc = "returned"
  /\ \E i, j \in Items :
       /\ i > 0 /\ options.batchSize > 0 /\ BatchOf(i) > 0
       /\ lastResult[i] = "threw" /\ FailuresOf(i) # {}
       /\ lastResult[j] = "ok" /\ invoked[j] > 1 /\ j > i

\* A second or later invocation follows only a throw that the retry
\* predicate accepts, with at most maxRetries attempts made before it.
C3_RetryStep ==
  \A i \in Items :
    (i \in DOMAIN invoked' /\ invoked'[i] > invoked[i] /\ invoked[i] >= 1) =>
      /\ lastResult[i] = "threw"
      /\ DefaultShouldRetry(lastError[i])
      /\ invoked[i] <= options.maxRetries

C3_RetryInv ==
  /\ \A i \in Items : invoked[i] <= options.maxRetries + 1
  /\ \A i \in Items :
       firstError[i] = "fatal" =>
         invoked[i] = 1 /\ Terminal(i)
  /\ \A k \in 1 .. Len(failures) :
       failures[k].index \in Items => failures[k].attempts = invoked[failures[k].index]

\* C3: a failed attempt is retried only if the retry predicate accepts the
\* error and the attempts made so far are at most maxRetries; the handler is
\* invoked at most maxRetries + 1 times per item, exactly once for an item
\* whose first error is not retryable; a recorded failure's attempts field is
\* the number of handler invocations of its item.
C3_RetryBound == [](C3_RetryInv) /\ [][C3_RetryStep]_vars

\* C3 witness: an item given up after maxRetries + 1 > 1 retryable failures,
\* next to an item given up after one non-retryable failure.
C3_Witness ==
  \E i, j \in Items :
    /\ options.maxRetries >= 1
    /\ Terminal(i) /\ lastResult[i] = "threw" /\ DefaultShouldRetry(lastError[i])
    /\ invoked[i] = options.maxRetries + 1
    /\ Terminal(j) /\ lastResult[j] = "threw" /\ ~DefaultShouldRetry(lastError[j])
    /\ invoked[j] = 1

\* every Kth item (the Kth, 2Kth, ...) threw a non-retryable error on its
\* only attempt and every other item succeeded
EveryKthFails(K) ==
  \A i \in Items :
    IF (i + 1) % K = 0
    THEN lastResult[i] = "threw" /\ ~DefaultShouldRetry(lastError[i])
    ELSE lastResult[i] = "ok"

\* C4: onProgress is called once per item, at its terminal outcome and never
\* during its retries, with completed = 1, 2, ..., total in this order; the
\* last call of a returned run reports completed = total; and when every Kth
\* item always throws a non-retryable error the failures are total / K, at
\* those indexes.
C4_Progress ==
  /\ \A k \in 1 .. Len(progressLog) : progressLog[k] = <<k, total>>
  /\ \A i \in Items : progressCalls[i] = IF Terminal(i) THEN 1 ELSE 0
  /\ Len(progressLog) = Cardinality({i \in Items : Terminal(i)})
  /\ enginePc = "returned" =>
       /\ Len(progressLog) = total
       /\ total > 0 => progressLog[Len(progressLog)][1] = total
       /\ \A K \in 1 .. (MaxItems + 1) :
            EveryKthFails(K) =>
              /\ Len(failures) = total \div K
              /\ {failures[k].index : k \in 1 .. Len(failures)} =
                   {i \in Items : (i + 1) % K = 0}

\* C4 witness: a returned run of three or more items where every 2nd failed
\* for good, and another where an item was reported once after a retry.
C4_Witness ==
  /\ enginePc = "returned"
  /\ total >= 3
  /\ EveryKthFails(2)
  /\ Len(progressLog) = total
  /\ \E i \in Items : invoked[i] > 1 /\ progressCalls[i] = 1

\* C5: no handler invocation of an item of a later batch starts before every
\* item of the earlier batches reached its terminal outcome.
C5_BatchBarrier ==
  \A i, j \in Items :
    (invoked[i] > 0 /\ options.batchSize > 0 /\ BatchOf(j) < BatchOf(i)) =>
      Terminal(j) /\ phase[j] = "finished"

\* C5 witness: the second batch is running after the first, run by a pool of
\* two workers, had an item that went through a retry.
C5_Witness ==
  /\ options.parallel >= 2 /\ options.batchSize >= 2
  /\ \E i, j \in Items :
       /\ BatchOf(j) < BatchOf(i)
       /\ phase[i] = "handler"
       /\ invoked[j] > 1

\* C6: at most min(max(1, parallel), batch length) items are being executed
\* (handler call, retry backoff or per-item delay), all of them items of the
\* running batch; every index is claimed at most once, and exactly once by
\* the time its batch is over.
C6_WorkerPool ==
  LET len == BatchLen(offset)
      running == {i \in Items : Executing(i)} IN
  /\ Cardinality(running) <= Min(Max(1, options.parallel), len)
  /\ \A i \in running : enginePc = "inBatch" /\ offset <= i /\ i < offset + len
  /\ \A i \in Items : claimed[i] <= 1
  /\ \A i \in Items : claimed[i] = 1 <=> phase[i] # "unclaimed"
  /\ \A i \in Items : (i < offset /\ enginePc # "notCalled") => claimed[i] = 1
  /\ enginePc = "batchSleep" => \A i \in Items : i < offset + len => claimed[i] = 1
  /\ enginePc = "returned" => \A i \in Items : claimed[i] = 1 /\ indexArg[i] = i

\* C6 witness: two workers share a batch of three; one item is finished, two
\* are being executed, and the cursor has passed the end of the batch.
C6_Witness ==
  /\ mode = "pool" /\ enginePc = "inBatch"
  /\ BatchLen(offset) >= 3 /\ cursor >= 3
  /\ Cardinality({i \in Items : Executing(i)}) = 2
  /\ \E i \in Items : phase[i] = "finished"

(***************************************************************************)
(* Properties of handleImport.                                             *)
(***************************************************************************)
LogIndexes(op, i, draft) ==
  {k \in 1 .. Len(remoteLog) :
     remoteLog[k].op = op /\ remoteLog[k].item = i /\ remoteLog[k].draft = draft}

\* C2: over the whole run of the write phase, an item with action create
\* inserts at most one product document and at most one variant document
\* per variant draft, retries of the item included.
C2_AtMostOnce ==
  \A k \in 1 .. Len(productsReadyForImport) :
    productsReadyForImport[k].action = "create" =>
      /\ Cardinality(LogIndexes("createProduct", k - 1, 0)) <= 1
      /\ \A d \in 1 .. productsReadyForImport[k].variants :
           Cardinality(LogIndexes("createVariant", k - 1, d)) <= 1

ValidationOutcomes == {"noData", "noSelection", "declined", "unresolved"}

NothingToImport == SelectedForImport(parsedData) = <<>>

ProductWrites ==
  {k \in 1 .. Len(remoteLog) :
     remoteLog[k].op \in {"createProduct", "updateProduct", "deleteVariant", "createVariant"}}

StillUnresolved ==
  \E k \in 1 .. Len(productsReadyForImport) :
    /\ productsReadyForImport[k].category # RawEmpty
    /\ productsReadyForImport[k].categoryId = Null

\* C8: when a product to import keeps a non-empty raw category and no
\* category id after the category phase, handleImport has stopped and no
\* product or variant document was created, updated or deleted; and every
\* product document written with a non-empty raw category carries a
\* category id.
C8_NoCategorylessWrite ==
  /\ StillUnresolved =>
       /\ importPc = "idle" /\ enginePc = "notCalled" /\ ~importing
       /\ ProductWrites = {}
       /\ storeProducts = {ExistingProduct} /\ storeVariants = {ExistingVariant}
  /\ \A k \in 1 .. Len(remoteLog) :
       (remoteLog[k].op \in {"createProduct", "updateProduct"}
          /\ remoteLog[k].raw # RawEmpty) => remoteLog[k].categoryId # Null

C8_Witness ==
  /\ importOutcome = "unresolvedAfterCreation"
  /\ StillUnresolved
  /\ createdCategories # <<>>

(***************************************************************************)
(* Properties of the review session.                                       *)
(***************************************************************************)
IndexIds ==
  {existingProducts.byCode[key].id : key \in DOMAIN existingProducts.byCode}
    \cup {existingProducts.byName[key].id : key \in DOMAIN existingProducts.byName}

\* C9: in every state of a review session a product whose action is update
\* references an existing product id that the current existing-product
\* index holds.
C9_UpdateReferencesIndex ==
  \A k \in 1 .. Len(parsedData) :
    parsedData[k].action = "update" => parsedData[k].existingProductId \in IndexIds

\* C10: a detection pass that finds a match for a product without a match
\* reference sets the action to skip (at parse time and after a load); a
\* pass that finds the id and the match type the product already records
\* leaves the product, the chosen action included, as it is.
C10_DetectionDefaults ==
  [][/\ lastStep' = "parse" =>
          \A k \in 1 .. Len(parsedData') :
            LET q == parsedData'[k]
                e == DetectExistingProduct(q.productCode, q.name, existingProducts') IN
            e.id # Null => q.action = "skip" /\ q.existingProductId = e.id
     /\ lastStep' = "detect" =>
          /\ Len(parsedData') = Len(parsedData)
          /\ \A k \in 1 .. Len(parsedData) :
               LET p == parsedData[k]
                   q == parsedData'[k]
                   e == DetectExistingProduct(p.productCode, p.name, existingProducts') IN
               /\ (e.id # Null /\ p.existingProductId = Null)
                    => /\ q.action = "skip"
                       /\ q.existingProductId = e.id /\ q.existingMatchType = e.type
               /\ (e.id # Null /\ p.existingProductId = e.id /\ p.existingMatchType = e.type)
                    => q = p]_vars

C10_Witness ==
  /\ lastStep = "detect"
  /\ \E k \in 1 .. Len(parsedData) :
       /\ parsedData[k].action = "update"
       /\ parsedData[k].existingProductId \in IndexIds
  /\ \E k \in 1 .. Len(parsedData) :
       /\ parsedData[k].action = "skip"
       /\ parsedData[k].existingMatchType = "name"

(***************************************************************************)
(* Properties of importProduct.                                            *)
(***************************************************************************)
\* importProduct of item i resolves in this step.
Resolves(i) ==
  /\ importPc = "writing"
  /\ phase[i] = "handler"
  /\ phase'[i] # "handler"
  /\ lastResult'[i] = "ok"

ItemLog(log, i) == SelectSeq(log, LAMBDA entry : entry.item = i)

OpRank(op) ==
  CASE op = "updateProduct" -> 1
    [] op = "deleteVariant" -> 2
    [] op = "createVariant" -> 3
    [] OTHER -> 0

\* C11: when the import of a product with action update succeeds, the
\* variant documents stored for the existing product are exactly the
\* variant drafts of the item, none from before remains, the item created
\* no product document, and (in an import at the first attempt) its writes
\* are one update of the product, then the deletions, then the insertions.
C11_FullReplace ==
  [][\A i \in Items :
       (Resolves(i) /\ productsReadyForImport[i + 1].action = "update") =>
         LET product == productsReadyForImport[i + 1]
             stored == {v \in storeVariants' : v.productId = product.existingProductId}
             writes == ItemLog(remoteLog', i) IN
         /\ \A v \in stored : v.item = i /\ v.draft \in 1 .. product.variants
         /\ \A d \in 1 .. product.variants :
              Cardinality({v \in stored : v.draft = d}) = 1
         /\ \A k \in 1 .. Len(writes) : writes[k].op # "createProduct"
         /\ attempts[i] = 1 =>
              /\ Len(writes) >= 1 /\ writes[1].op = "updateProduct"
              /\ \A j, k \in 1 .. Len(writes) :
                   j < k => OpRank(writes[j].op) <= OpRank(writes[k].op)
              /\ \A k \in 2 .. Len(writes) : writes[k].op # "updateProduct"]_vars

ImportEnded == importPc = "idle" /\ importOutcome \in {"completed", "completedWithFailures"}

ExampleProducts == ParseRows(ExampleRows, BuildIndex({}), <<>>)

\* C12: when an import ends and no remote call failed, there is no failure
\* and every product with action create has written exactly one product
\* document and then exactly one variant document per variant draft, each
\* with the id of that product document as its product; for the file with
\* two S-106 rows and one S-107 row, in a business without products, the
\* database then holds 2 product documents and 3 variant documents.
C12_CreateWrites ==
  (ImportEnded /\ faults = 0) =>
    /\ failures = <<>>
    /\ \A k \in 1 .. Len(productsReadyForImport) :
         productsReadyForImport[k].action = "create" =>
           LET product == productsReadyForImport[k]
               inserts == LogIndexes("createProduct", k - 1, 0)
               variantWrites == {j \in 1 .. Len(remoteLog) :
                                   remoteLog[j].op = "createVariant"
                                     /\ remoteLog[j].item = k - 1} IN
           /\ Cardinality(inserts) = 1
           /\ Cardinality(variantWrites) = product.variants
           /\ \A d \in 1 .. product.variants :
                Cardinality(LogIndexes("createVariant", k - 1, d)) = 1
           /\ \A j \in variantWrites :
                \A h \in inserts : h < j /\ remoteLog[j].parent = remoteLog[h].id
    /\ productsToProcess = ExampleProducts =>
         Cardinality(storeProducts) = 2 /\ Cardinality(storeVariants) = 3

C12_Witness ==
  /\ ImportEnded /\ faults = 0
  /\ productsToProcess = ExampleProducts
  /\ Len(parsedData) = 2
  /\ Cardinality(storeProducts) = 2 /\ Cardinality(storeVariants) = 3


(***************************************************************************)
(* Properties of the category plan.                                        *)
(***************************************************************************)
RECURSIVE ChainSelected(_, _, _)
\* Every segment of `segments`, keyed by its full path below parentPath, is
\* a proposal selected for creation.
ChainSelected(segments, parentPath, selectedKeys) ==
  IF segments = <<>> THEN TRUE
  ELSE LET nextPath == Append(parentPath, Head(segments)) IN
       /\ BuildCategoryPathKey(nextPath) \in selectedKeys
       /\ ChainSelected(Tail(segments), nextPath, selectedKeys)

RECURSIVE CoveredFrom(_, _, _, _, _)
\* The segments match the tree from the category parentId downwards, and
\* from the first segment that does not, each is selected for creation.
CoveredFrom(segments, cats, parentId, parentPath, selectedKeys) ==
  IF segments = <<>> THEN TRUE
  ELSE LET existing == FindCategoryInIndex(cats, parentId, Head(segments)) IN
       IF existing.id # Null
       THEN CoveredFrom(Tail(segments), cats, existing.id,
                        Append(parentPath, existing.name), selectedKeys)
       ELSE ChainSelected(segments, parentPath, selectedKeys)

\* The product is resolved: it has a category id, or no category, or each
\* segment of its path is in the tree or selected for creation.
Covered(product) ==
  \/ product.categoryId # Null
  \/ ParseCategorySegments(product.category) = <<>>
  \/ CoveredFrom(ParseCategorySegments(product.category), categories, Null, <<>>,
                 ProposalKeys(CategoriesSelectedForCreation))

\* C13: the unresolved count is the number of products that are not skipped
\* and have a path segment that is neither in the tree, walking from the
\* root to the leaf, nor a proposal selected for creation; it is 0 when
\* there is none.
C13_UnresolvedCount ==
  UnresolvedAfterPlanCount =
    Cardinality({k \in 1 .. Len(parsedData) :
                   parsedData[k].action # "skip" /\ ~Covered(parsedData[k])})

RECURSIVE ChainFrom(_, _, _)
\* The chain of proposals for `segments` below parentPath: each keyed by its
\* full path, the first with the category parentId as parent, each later
\* one with the key of the one before it.
ChainFrom(segments, parentPath, parentId) ==
  IF segments = <<>> THEN {}
  ELSE LET nextPath == Append(parentPath, Head(segments)) IN
       {[key |-> BuildCategoryPathKey(nextPath),
         parentExistingId |-> parentId,
         parentKey |-> IF parentPath # <<>> THEN BuildCategoryPathKey(parentPath)
                       ELSE <<>>]}
         \cup ChainFrom(Tail(segments), nextPath, Null)

RECURSIVE MissChain(_, _, _, _)
\* The walk from the root to the leaf: the chain starts at the first segment
\* that is not in the tree.
MissChain(segments, cats, parentId, parentPath) ==
  IF segments = <<>> THEN {}
  ELSE LET existing == FindCategoryInIndex(cats, parentId, Head(segments)) IN
       IF existing.id # Null
       THEN MissChain(Tail(segments), cats, existing.id,
                      Append(parentPath, existing.name))
       ELSE ChainFrom(segments, parentPath, parentId)

\* The products that buildProposedCategoriesForProducts walks
Walked(products) ==
  {k \in 1 .. Len(products) :
     /\ products[k].categoryId = Null
     /\ ParseCategorySegments(products[k].category) # <<>>}

\* key and parent of the proposals
ProposalLinks(props) ==
  {[key |-> props[k].key, parentExistingId |-> props[k].parentExistingId,
    parentKey |-> props[k].parentKey] : k \in 1 .. Len(props)}

\* C14: the proposals are, for each walked path, the chain of the first
\* missed segment and every segment after it, each keyed by its full path,
\* the first with the last matched category as parent, each later one with
\* the previous proposal's key as parent; no segment after a miss is matched
\* against the tree.
C14_MissChain ==
  ProposalLinks(ProposedCategories) =
    UNION {MissChain(ParseCategorySegments(parsedData[k].category), categories,
                     Null, <<>>) : k \in Walked(parsedData)}

RECURSIVE FullyMatches(_, _, _)
\* Each segment names, by name or by slug, a category of the tree whose
\* parent is the category of the segment before it.
FullyMatches(segments, cats, parentId) ==
  \/ segments = <<>>
  \/ \E k \in 1 .. Len(cats) :
       /\ cats[k].parentId = parentId
       /\ \/ Lower(cats[k].name) = Lower(Head(segments))
          \/ cats[k].slug # <<>> /\ cats[k].slug = Slugify(Head(segments))
       /\ FullyMatches(Tail(segments), cats, cats[k].id)

\* The only product is one without category id whose category is
\* 'Hardware > Handles', and the tree is the root Hardware.
HandlesUnderHardware ==
  /\ categories = <<Hardware>>
  /\ Len(parsedData) = 1
  /\ parsedData[1].category = <<"Hardware", "Handles">>
  /\ parsedData[1].categoryId = Null

C16_Detect ==
  \A k \in 1 .. Len(parsedData) :
    LET p == parsedData[k]
        codeKey == NormalizeKey(p.productCode)
        nameKey == NormalizeKey(p.name)
        byCode == existingProducts.byCode
        byName == existingProducts.byName
        found == DetectExistingProduct(p.productCode, p.name, existingProducts) IN
    /\ codeKey \in DOMAIN byCode =>
         found = [id |-> byCode[codeKey].id, name |-> byCode[codeKey].name,
                  type |-> "code"]
    /\ codeKey \notin DOMAIN byCode /\ nameKey \in DOMAIN byName =>
         found = [id |-> byName[nameKey].id, name |-> byName[nameKey].name,
                  type |-> "name"]
    /\ codeKey \notin DOMAIN byCode /\ nameKey \notin DOMAIN byName => found = NoMatch
    /\ codeKey = "" => found.type # "code"
    /\ nameKey = "" => found.type # "name"
    /\ "" \notin DOMAIN byCode \cup DOMAIN byName

(***************************************************************************)
(* Properties of the creation choices.                                     *)
(***************************************************************************)
\* C17: after every step the creation choices have exactly one entry for
\* each key of the proposals of the new state, and a step that is not an
\* edit of the choices keeps the value of every key that had one and gives
\* true to a new key; a deselection survives the recomputations for as long
\* as its proposal is proposed.
C17_ChoicesFollow ==
  [][/\ DOMAIN categoryCreationChoices' =
          ProposalKeys(BuildProposedCategoriesForProducts(parsedData', categories'))
     /\ lastStep' \notin {"toggle", "bulk"} =>
          \A key \in DOMAIN categoryCreationChoices' :
            categoryCreationChoices'[key] =
              IF key \in DOMAIN categoryCreationChoices
              THEN categoryCreationChoices[key] ELSE TRUE]_vars

\* A deselected proposal after a recomputation of the proposals.
C17_Witness ==
  /\ lastStep \in {"parse", "categories"}
  /\ Len(ProposedCategories) = 2
  /\ \E key \in DOMAIN categoryCreationChoices : ~categoryCreationChoices[key]
  /\ \E key \in DOMAIN categoryCreationChoices : categoryCreationChoices[key]

(***************************************************************************)
(* Properties of the tokenizer.                                            *)
(***************************************************************************)
\* C18: the tokens of a text written from records are the fields of the
\* records: the headers are the fields of the first record and the values
\* of each data line are the fields of its record, with their commas,
\* newlines, quotes and blanks.
C18_RoundTrip ==
  csvStatus = "parsed" /\ csvTable # <<>> =>
    <<csvHeaders>> \o csvRows = csvTable

\* C19: parseCSV does not take its error path, whatever the text: it gives a
\* sequence of rows, which may be empty.
C19_NeverFails == csvStatus # "failed"

(***************************************************************************)
(* Properties of the category creation loop.                               *)
(***************************************************************************)
\* The proposal of the creation queue with the path `segments`
QueuedProposal(segments) ==
  CHOOSE proposal \in {categoriesToCreate[k] : k \in 1 .. Len(categoriesToCreate)} :
    proposal.path = segments

\* C20: a category created for a proposal of depth greater than 1 is created
\* with a parent that is not null and is the existing parent of the proposal
\* or the id recorded for the key of its parent proposal, and when that id
\* is of a category of this run, its creation is earlier in the log.
C20_ParentLinked ==
  \A k \in 1 .. Len(remoteLog) :
    LET entry == remoteLog[k] IN
    entry.op = "createCategory" /\ Len(entry.raw) > 1 =>
      LET proposal == QueuedProposal(entry.raw) IN
      /\ entry.parent # Null
      /\ \/ entry.parent = proposal.parentExistingId
         \/ /\ proposal.parentKey \in DOMAIN createdCategoryIds
            /\ entry.parent = createdCategoryIds[proposal.parentKey]
      /\ \/ \E c \in 1 .. Len(categoriesSnapshot) : categoriesSnapshot[c].id = entry.parent
         \/ \E j \in 1 .. k - 1 :
              remoteLog[j].op = "createCategory" /\ remoteLog[j].id = entry.parent

\* C21: a step gives a product the action update for an existing product id
\* only when it is a choice of the operator (per row or in bulk); any other
\* step, a detection pass included, leaves a product that updates an
\* existing product id with the action update for that same id only.
C21_UpdateIsChosen ==
  [][\A k \in 1 .. Len(parsedData') :
       parsedData'[k].action = "update" /\ parsedData'[k].existingProductId # Null =>
         \/ lastStep' = "edit"
         \/ /\ k <= Len(parsedData)
            /\ parsedData[k].action = "update"
            /\ parsedData[k].productCode = parsedData'[k].productCode
            /\ parsedData[k].existingProductId = parsedData'[k].existingProductId]_vars

\* The category documents of the store: those the page loaded, those this
\* run created, and those others wrote since.
StoreCategories ==
  {categoriesSnapshot[k] : k \in 1 .. Len(categoriesSnapshot)}
    \cup {createdCategories[k] : k \in 1 .. Len(createdCategories)}
    \cup remoteCategories

\* C22: a step of the category loop that creates a category creates none
\* whose name or slug a category of the store already has under the same
\* parent at that moment, be it one another session added after the page
\* loaded its list or one created earlier in the run.
C22_NoDuplicateCategory ==
  [][Len(createdCategories') = Len(createdCategories) + 1 =>
       LET new == createdCategories'[Len(createdCategories')] IN
       ~\E c \in StoreCategories :
          /\ c.parentId = new.parentId
          /\ Lower(c.name) = Lower(new.name) \/ c.slug = new.slug]_vars

\* C23: the proposals built for the parsed products hold no key twice,
\* however many products name the same unresolved path; they are in order
\* of depth and then of label; and a proposal whose parent is itself a
\* proposal (no existing parent id, a parent key) comes after that parent.
C23_ProposalOrder ==
  LET props == BuildProposedCategoriesForProducts(parsedData, categories) IN
  /\ \A j, k \in 1 .. Len(props) : j # k => props[j].key # props[k].key
  /\ \A j, k \in 1 .. Len(props) : j < k => ~ProposalBefore(props[k], props[j])
  /\ \A k \in 1 .. Len(props) :
       props[k].parentExistingId = Null /\ props[k].parentKey # <<>> =>
         \E j \in 1 .. k - 1 : props[j].key = props[k].parentKey

\* Two products name the same path, none of whose segments exists, and the
\* proposal of the second segment follows the proposal of the first.
C23_Witness ==
  /\ Len(parsedData) = 2
  /\ parsedData[1].category = <<"Tools", "Hardware">>
  /\ parsedData[2].category = <<"Tools", "Hardware">>
  /\ categories = <<>>
  /\ Len(ProposedCategories) = 2
  /\ ProposedCategories[2].parentExistingId = Null
  /\ ProposedCategories[2].parentKey = ProposedCategories[1].key

\* C24: with parallel <= 1 at most one item is being executed at a time,
\* and an item's handler is invoked only after every item of a smaller
\* index is done with all its attempts: the handler is called in ascending
\* order of index, each item under its own index, retries in place.
C24_Sequential ==
  options.parallel <= 1 =>
    /\ Cardinality({i \in Items : Executing(i)}) <= 1
    /\ \A i, j \in Items :
         i < j /\ invoked[j] > 0 =>
           /\ phase[i] = "finished"
           /\ invoked[i] > 0
           /\ lastResult[i] \in {"ok", "threw"}
    /\ \A i \in Items : invoked[i] > 0 => indexArg[i] = i

\* C24 witness: with parallel 0 and both items in one batch, the second
\* item is in its handler after the first went through a retry.
C24_Witness ==
  /\ options.parallel = 0 /\ options.batchSize >= 2 /\ total >= 2
  /\ enginePc = "inBatch"
  /\ invoked[0] > 1
  /\ phase[1] = "handler"

\* C25: when every handler invocation settles and every timer fires, the
\* call of processWithRateLimit returns, whatever non-negative batchSize,
\* parallel and maxRetries it is given and however its handler fails.
C25_Returns == <>(enginePc = "returned")

\* C26: while the category phase waits on a creation call the shared
\* category list stays as it is; a step changes the list only by appending
\* the categories of this run once every proposal of the queue is mapped to
\* an id; and when a creation call throws the list is the one the run
\* started with and no product or variant has been written.
C26_MergeAfterPhase ==
  [][/\ importPc' = "categoryCall" => categories' = categories
     /\ categories' # categories =>
          /\ importPc = "categoryCall" /\ importPc' # "categoryCall"
          /\ \A k \in 1 .. Len(categoriesToCreate') :
               categoriesToCreate'[k].key \in DOMAIN createdCategoryIds'
          /\ categories' = categories \o createdCategories'
     /\ importOutcome' = "threw" =>
          /\ categories' = categories
          /\ categories' = categoriesSnapshot'
          /\ \A k \in 1 .. Len(remoteLog') : remoteLog'[k].op = "createCategory"]_vars

\* A creation call threw after an earlier one of the same run had created
\* a category, which is not in the shared list.
C26_Witness ==
  /\ importOutcome = "threw"
  /\ Len(createdCategories) >= 1
  /\ categories = categoriesSnapshot
  /\ \A k \in 1 .. Len(categories) : categories[k].id # createdCategories[1].id

\* The ways a call of handleImport ends: after the write phase, at a
\* validation (before the category phase or after it), or by throwing.
TerminalOutcomes ==
  {"completed", "completedWithFailures"}
    \cup ValidationOutcomes \cup {"unresolvedAfterCreation"} \cup {"threw"}

ImportAtRest == importPc = "idle" /\ importOutcome \in TerminalOutcomes /\ ~importing

\* C27: every import that was started ends, as completed (with or without
\* failures), stopped by a validation or stopped by an error, and whenever
\* no import is running the importing flag is false.
C27_RunEnds ==
  /\ [](importPc = "idle" => ~importing)
  /\ (importPc # "idle") ~> ImportAtRest

\* An import that created a category has ended with failures reported, and
\* the flag is down.
C27_Witness ==
  /\ ImportAtRest
  /\ importOutcome = "completedWithFailures"
  /\ Len(failures) >= 1
  /\ Len(createdCategories) >= 1

\* The categories on the way from the category `id` up, each once, nearest
\* first.
RECURSIVE ChainUp(_, _)
ChainUp(id, seen) ==
  IF id = Null \/ id \in seen \/ id \notin DOMAIN lookup THEN <<>>
  ELSE <<id>> \o ChainUp(lookup[id].parentId, seen \cup {id})

\* C28: a call of getCategoryPath or getCategoryAncestry returns on every
\* parentId graph, cycles and missing parents included; its path never has
\* more entries than the lookup has categories; and what it returns has one
\* entry per category of the chain and no category twice and, for a
\* starting category of the lookup, ends with that category.
C28_WalkEnds ==
  /\ <>(walkPc = "returned")
  /\ [][/\ Len(path') <= Cardinality(DOMAIN lookup)
        /\ walkPc' = "returned" =>
             LET chain == Reverse(ChainUp(walkCategoryId, {})) IN
             /\ Len(path') = Len(chain)
             /\ \A j, k \in 1 .. Len(chain) : j # k => chain[j] # chain[k]
             /\ \A k \in 1 .. Len(path') :
                  IF walkFn = "getCategoryPath"
                  THEN path'[k] = lookup[chain[k]].name
                  ELSE path'[k] = chain[k]
             /\ walkCategoryId \in DOMAIN lookup =>
                  /\ path' # <<>>
                  /\ chain[Len(chain)] = walkCategoryId]_vars

\* A call on a cycle of two categories of the same name, entered from a
\* third category, has returned all three.
C28_Witness ==
  /\ walkPc = "returned"
  /\ walkFn = "getCategoryPath"
  /\ walkCategoryId = 1
  /\ lookup[1].parentId = 2 /\ lookup[2].parentId = 3 /\ lookup[3].parentId = 2
  /\ path = <<"Handles", "Handles", "Hardware">>

\* C29: a run that passed the validation and whose creation calls all
\* succeeded never stops at the check after the creation phase: every
\* product to import with a raw category has a category id and the run goes
\* on to write.
C29_ReachesWrite == importOutcome # "unresolvedAfterCreation"

\* C30: while a call of handleImport is past its validation and has not
\* ended, in the category phase as in the write phase, the operator cannot
\* start another: the import button is disabled.
C30_OneRun == importPc # "idle" => ~ImportButtonEnabled

====
